---- MODULE Spec2Model ----
(***************************************************************************)
(* Model of the emoji sprite editor: the StateManager (editor state,       *)
(* snapshot history, durable storage), the Gizmo pointer state machine     *)
(* and the host handlers that call them.                                   *)
(*                                                                         *)
(* Number representation.  TLC has integers only, so the floating point    *)
(* values of the program are held in fixed point:                          *)
(*   - world coordinates (sprite x, y, pointer positions): whole units;    *)
(*   - scale factors and sprite-local coordinates: hundredths (FP = 100,   *)
(*     so scale 1.0 is 100 and the 0.1 floor is 10);                       *)
(*   - rotation: whole degrees; sines and cosines: thousandths.            *)
(* Sprite ids "sprite-<n>" are held as the number n; the null id is 0.     *)
(***************************************************************************)
EXTENDS Integers, Sequences, FiniteSets, TLC

(***************************************************************************)
(* Program constants                                                       *)
(***************************************************************************)
UNDO_LIMIT == 50
HANDLE_HIT_SIZE == 14
ROTATION_HANDLE_OFFSET == 25
ROTATION_HANDLE_RADIUS == 6
BOUNDS_MARGIN == 4
INITIAL_NEXT_ID == 1
DUPLICATE_OFFSET == 10

(***************************************************************************)
(* Fixed-point units                                                       *)
(***************************************************************************)
FP == 100
TRIG == 1000

(***************************************************************************)
(* Bounds of the exploration                                               *)
(***************************************************************************)
MaxOps == 4
MaxOpsFull == 2
MaxTouchOps == 3
MaxCalls == 3
MaxFormatOps == 6
MaxStorageOps == 4
MaxScaleOps == 4
MaxRotateOps == 4

(***************************************************************************)
(* JavaScript values without a number or string form                       *)
(***************************************************************************)
NullId == 0
Undefined == "<undefined>"
DEFAULT_FONT == "@googlefont:Noto Color Emoji"

Abs(n) == IF n < 0 THEN -n ELSE n
Sign(n) == IF n < 0 THEN -1 ELSE 1
Max(a, b) == IF a >= b THEN a ELSE b
Min(a, b) == IF a <= b THEN a ELSE b
\* real division a / b rounded to the nearest fixed-point value
RoundDiv(a, b) == Sign(a) * Sign(b) * ((2 * Abs(a) + Abs(b)) \div (2 * Abs(b)))

VARIABLES
    state,                \* StateManager.state
    undoStack,            \* StateManager.undoStack
    redoStack,            \* StateManager.redoStack
    storage,              \* localStorage item under LOCALSTORAGE_KEY
    initialized,          \* loadFromLocalStorage has run (editor constructor)
    mode,                 \* Gizmo.mode
    dragStartPos,         \* Gizmo.dragStartPos
    dragStartSpriteState, \* Gizmo.dragStartSpriteState
    dragStartLocalPos,    \* Gizmo.dragStartLocalPos
    captured,             \* pointer ids captured by the canvas
    pressed,              \* pointer ids that are down (mouse button, finger, pen)
    last,                 \* the handler that ran last, with its observations
    opsLeft               \* remaining handler invocations of this exploration

vars == <<state, undoStack, redoStack, storage, initialized, mode, dragStartPos,
          dragStartSpriteState, dragStartLocalPos, captured, pressed, last,
          opsLeft>>

(***************************************************************************)
(* JSON.stringify / JSON.parse of the editor state.                        *)
(* A JSON text is held as its sequence of <<key, token>> members in key    *)
(* order; a token is <<"num", n>>, <<"str", s>>, <<"bool", b>>,            *)
(* <<"null">> or <<"arr", seq>>.  A member whose value is undefined is     *)
(* left out by stringify, and a missing member reads back as undefined.    *)
(***************************************************************************)
NumToken(n) == <<"num", n>>
StrToken(s) == <<"str", s>>
BoolToken(b) == <<"bool", b>>
NullToken == <<"null">>
IdToken(id) == IF id = NullId THEN NullToken ELSE StrToken(<<"sprite-", id>>)

Present(members) == SelectSeq(members, LAMBDA m : m[2] # <<"undefined">>)

\* an element of the sprites array that is null: a sprite's members are
\* pairs, so no sprite's text equals it
NullElement == <<NullToken>>

SerializeSprite(sp) ==
    IF sp = [null |-> TRUE] THEN NullElement ELSE
    Present(
    << <<"id", IdToken(sp.id)>>,
       <<"emoji", IF sp.emoji = Undefined THEN <<"undefined">> ELSE StrToken(sp.emoji)>>,
       <<"x", NumToken(sp.x)>>,
       <<"y", NumToken(sp.y)>>,
       <<"rotation", NumToken(sp.rotation)>>,
       <<"scaleX", NumToken(sp.scaleX)>>,
       <<"scaleY", NumToken(sp.scaleY)>>,
       <<"zIndex", NumToken(sp.zIndex)>> >>)

\* JSON.stringify(this.state)
Serialize(st) ==
    Present(
    << <<"sprites", <<"arr", [i \in 1..Len(st.sprites) |-> SerializeSprite(st.sprites[i])]>> >>,
       <<"selectedId", IdToken(st.selectedId)>>,
       <<"nextId", NumToken(st.nextId)>>,
       <<"showOrigin", BoolToken(st.showOrigin)>>,
       <<"axesOnTop", BoolToken(st.axesOnTop)>>,
       <<"borderOnTop", BoolToken(st.borderOnTop)>>,
       <<"customFont", IF st.customFont = Undefined THEN <<"undefined">>
                       ELSE StrToken(st.customFont)>> >>)

HasMember(doc, key) == \E i \in 1..Len(doc) : doc[i][1] = key
Member(doc, key) ==
    IF HasMember(doc, key)
    THEN doc[CHOOSE i \in 1..Len(doc) : doc[i][1] = key][2]
    ELSE <<"undefined">>

TokenId(t) == IF t[1] = "str" THEN t[2][2] ELSE NullId

ParseSprite(doc) ==
    IF doc = NullElement THEN [null |-> TRUE] ELSE
    [id |-> TokenId(Member(doc, "id")),
     emoji |-> IF Member(doc, "emoji")[1] = "str" THEN Member(doc, "emoji")[2] ELSE Undefined,
     x |-> Member(doc, "x")[2],
     y |-> Member(doc, "y")[2],
     rotation |-> Member(doc, "rotation")[2],
     scaleX |-> Member(doc, "scaleX")[2],
     scaleY |-> Member(doc, "scaleY")[2],
     zIndex |-> Member(doc, "zIndex")[2]]

\* JSON.parse(snapshot) of a text written by Serialize
Deserialize(doc) ==
    LET arr == Member(doc, "sprites")[2]
        font == Member(doc, "customFont")
    IN [sprites |-> [i \in 1..Len(arr) |-> ParseSprite(arr[i])],
        selectedId |-> TokenId(Member(doc, "selectedId")),
        nextId |-> Member(doc, "nextId")[2],
        showOrigin |-> Member(doc, "showOrigin")[2],
        axesOnTop |-> Member(doc, "axesOnTop")[2],
        borderOnTop |-> Member(doc, "borderOnTop")[2],
        customFont |-> IF font[1] = "str" THEN font[2] ELSE Undefined]

\* parsed.sprites && Array.isArray(parsed.sprites)
HasSpritesArray(doc) == Member(doc, "sprites")[1] = "arr"

(***************************************************************************)
(* StateManager.  Its operations are operators on the record               *)
(*   M = [state, undoStack, redoStack, storage, commits, pushes]           *)
(* where commits and pushes count the saveSnapshot calls of the running    *)
(* handler and those of them that pushed.                                  *)
(***************************************************************************)
\* constructor
InitialState ==
    [sprites |-> <<>>, selectedId |-> NullId, nextId |-> INITIAL_NEXT_ID,
     showOrigin |-> TRUE, axesOnTop |-> FALSE, borderOnTop |-> FALSE,
     customFont |-> DEFAULT_FONT]

Top(stack) == stack[Len(stack)]
Pop(stack) == SubSeq(stack, 1, Len(stack) - 1)

\* sprites.find(s => s.id === id): position of the first match, 0 when none
FindIndex(sprites, id) ==
    IF \E i \in 1..Len(sprites) : sprites[i].id = id
    THEN CHOOSE i \in 1..Len(sprites) :
            /\ sprites[i].id = id
            /\ \A j \in 1..(i - 1) : sprites[j].id # id
    ELSE 0

\* Object.assign(sprite, updates)
Assign(sp, updates) ==
    [f \in DOMAIN sp |-> IF f \in DOMAIN updates THEN updates[f] ELSE sp[f]]

\* [...sprites].sort((a, b) => a.zIndex - b.zIndex), a stable sort:
\* the 0-based place of sprites[i] in the sorted copy
Rank(sprites, i) ==
    Cardinality({j \in 1..Len(sprites) :
        \/ sprites[j].zIndex < sprites[i].zIndex
        \/ sprites[j].zIndex = sprites[i].zIndex /\ j < i})

\* the sorted copy, as positions of the collection
SortedByZ(sprites) ==
    [r \in 1..Len(sprites) |-> CHOOSE i \in 1..Len(sprites) : Rank(sprites, i) = r - 1]

\* variant: every snapshot is pushed, equal to the top or not
SaveSnapshot_NoDedupe(M) ==
    LET snapshot == Serialize(M.state)
        pushed == Append(M.undoStack, snapshot)
    IN [M EXCEPT !.undoStack = IF Len(pushed) > UNDO_LIMIT THEN Tail(pushed) ELSE pushed,
                 !.redoStack = <<>>,
                 !.storage = <<"doc", snapshot>>,
                 !.commits = @ + 1,
                 !.pushes = @ + 1]

\* variant: the stack is never trimmed
SaveSnapshot_NoLimit(M) ==
    LET snapshot == Serialize(M.state)
    IN IF Len(M.undoStack) > 0 /\ Top(M.undoStack) = snapshot
       THEN [M EXCEPT !.commits = @ + 1]
       ELSE [M EXCEPT !.undoStack = Append(@, snapshot),
                      !.redoStack = <<>>,
                      !.storage = <<"doc", snapshot>>,
                      !.commits = @ + 1,
                      !.pushes = @ + 1]

\* variant: the storage item is written before the duplicate check
SaveSnapshot_WritesAlways(M) ==
    LET snapshot == Serialize(M.state)
    IN IF Len(M.undoStack) > 0 /\ Top(M.undoStack) = snapshot
       THEN [M EXCEPT !.storage = <<"doc", snapshot>>, !.commits = @ + 1]
       ELSE LET pushed == Append(M.undoStack, snapshot)
            IN [M EXCEPT !.undoStack = IF Len(pushed) > UNDO_LIMIT
                                       THEN Tail(pushed) ELSE pushed,
                         !.redoStack = <<>>,
                         !.storage = <<"doc", snapshot>>,
                         !.commits = @ + 1,
                         !.pushes = @ + 1]

\* variant: a push leaves the redo stack alone
SaveSnapshot_KeepsRedo(M) ==
    LET snapshot == Serialize(M.state)
    IN IF Len(M.undoStack) > 0 /\ Top(M.undoStack) = snapshot
       THEN [M EXCEPT !.commits = @ + 1]
       ELSE LET pushed == Append(M.undoStack, snapshot)
            IN [M EXCEPT !.undoStack = IF Len(pushed) > UNDO_LIMIT
                                       THEN Tail(pushed) ELSE pushed,
                         !.storage = <<"doc", snapshot>>,
                         !.commits = @ + 1,
                         !.pushes = @ + 1]

\* try { localStorage.setItem(LOCALSTORAGE_KEY, snapshot) } catch: the item
\* after the write.  A store that is <<"full">> holds no item and throws at
\* every write; what is thrown is caught and logged
SetItem(stored, snapshot) ==
    IF stored[1] = "full" THEN stored ELSE <<"doc", snapshot>>

\* variant: a write that fails leaves the commit undone
SaveSnapshot_WriteAborts(M) ==
    LET snapshot == Serialize(M.state)
    IN IF Len(M.undoStack) > 0 /\ Top(M.undoStack) = snapshot
       THEN [M EXCEPT !.commits = @ + 1]
       ELSE IF M.storage[1] = "full" THEN [M EXCEPT !.commits = @ + 1]
       ELSE LET pushed == Append(M.undoStack, snapshot)
            IN [M EXCEPT !.undoStack = IF Len(pushed) > UNDO_LIMIT
                                       THEN Tail(pushed) ELSE pushed,
                         !.redoStack = <<>>,
                         !.storage = <<"doc", snapshot>>,
                         !.commits = @ + 1,
                         !.pushes = @ + 1]

SaveSnapshot(M) ==
    LET snapshot == Serialize(M.state)
    IN IF Len(M.undoStack) > 0 /\ Top(M.undoStack) = snapshot
       THEN [M EXCEPT !.commits = @ + 1]
       ELSE LET pushed == Append(M.undoStack, snapshot)
            IN [M EXCEPT !.undoStack = IF Len(pushed) > UNDO_LIMIT
                                       THEN Tail(pushed) ELSE pushed,
                         !.redoStack = <<>>,
                         !.storage = SetItem(M.storage, snapshot),
                         !.commits = @ + 1,
                         !.pushes = @ + 1]

AddSprite(M, emoji, x, y) ==
    LET sprite == [id |-> M.state.nextId, emoji |-> emoji, x |-> x, y |-> y,
                   rotation |-> 0, scaleX |-> FP, scaleY |-> FP,
                   zIndex |-> Len(M.state.sprites)]
    IN SaveSnapshot([M EXCEPT !.state.nextId = @ + 1,
                              !.state.sprites = Append(@, sprite),
                              !.state.selectedId = sprite.id])

\* variant: the provisional update commits like updateSprite
UpdateSpriteWithoutSnapshot_Commits(M, id, updates) ==
    LET i == FindIndex(M.state.sprites, id)
    IN IF i = 0 THEN M
       ELSE SaveSnapshot([M EXCEPT !.state.sprites[i] = Assign(@, updates)])

UpdateSpriteWithoutSnapshot(M, id, updates) ==
    LET i == FindIndex(M.state.sprites, id)
    IN IF i = 0 THEN M
       ELSE [M EXCEPT !.state.sprites[i] = Assign(@, updates)]

UpdateSprite(M, id, updates) ==
    IF FindIndex(M.state.sprites, id) = 0 THEN M
    ELSE SaveSnapshot(UpdateSpriteWithoutSnapshot(M, id, updates))

FinalizeChanges(M) == SaveSnapshot(M)

ReindexZOrder(sprites) ==
    [i \in 1..Len(sprites) |-> [sprites[i] EXCEPT !.zIndex = Rank(sprites, i)]]

\* variant: deleting any sprite clears the selection
DeleteSprite_ClearsSelection(M, id) ==
    LET kept == SelectSeq(M.state.sprites, LAMBDA sp : sp.id # id)
    IN SaveSnapshot([M EXCEPT
            !.state.sprites = ReindexZOrder(kept),
            !.state.selectedId = NullId])

\* variant: the selection is left on the deleted sprite
DeleteSprite_KeepsSelection(M, id) ==
    LET kept == SelectSeq(M.state.sprites, LAMBDA sp : sp.id # id)
    IN SaveSnapshot([M EXCEPT !.state.sprites = ReindexZOrder(kept)])

DeleteSprite(M, id) ==
    LET kept == SelectSeq(M.state.sprites, LAMBDA sp : sp.id # id)
    IN SaveSnapshot([M EXCEPT
            !.state.sprites = ReindexZOrder(kept),
            !.state.selectedId = IF @ = id THEN NullId ELSE @])

ClearAll(M) ==
    SaveSnapshot([M EXCEPT !.state.sprites = <<>>, !.state.selectedId = NullId])

\* variant: the selection is no edit of the history
SelectSprite_NoCommit(M, id) == [M EXCEPT !.state.selectedId = id]

SelectSprite(M, id) == SaveSnapshot([M EXCEPT !.state.selectedId = id])

SetShowOrigin(M, show) == SaveSnapshot([M EXCEPT !.state.showOrigin = show])

SetAxesOnTop(M, onTop) == SaveSnapshot([M EXCEPT !.state.axesOnTop = onTop])

SetBorderOnTop(M, onTop) == SaveSnapshot([M EXCEPT !.state.borderOnTop = onTop])

SetCustomFontInput(M, fontInput) ==
    SaveSnapshot([M EXCEPT !.state.customFont = fontInput])

\* getSelectedSprite(): position of the selected sprite, 0 for null
SelectedIndex(st) ==
    IF st.selectedId = NullId THEN 0 ELSE FindIndex(st.sprites, st.selectedId)

\* swap the zIndex of the sprite and of its neighbour `step` places away in
\* the sorted order
SwapLayer(M, id, step) ==
    LET sprites == M.state.sprites
        p == FindIndex(sprites, id)
        sorted == SortedByZ(sprites)
        \* sorted.findIndex(s => s.id === id)
        index == CHOOSE r \in 1..Len(sprites) :
                    /\ sprites[sorted[r]].id = id
                    /\ \A q \in 1..(r - 1) : sprites[sorted[q]].id # id
    IN IF p = 0 THEN M
       ELSE IF index + step < 1 \/ index + step > Len(sprites) THEN M
       ELSE LET n == sorted[index + step]
                temp == sprites[n].zIndex
                first == [sprites EXCEPT ![n].zIndex = sprites[p].zIndex]
            IN SaveSnapshot([M EXCEPT !.state.sprites = [first EXCEPT ![p].zIndex = temp]])

MoveLayerUp(M, id) == SwapLayer(M, id, 1)

MoveLayerDown(M, id) == SwapLayer(M, id, -1)

MaxZ(sprites) ==
    CHOOSE z \in {sprites[i].zIndex : i \in 1..Len(sprites)} :
        \A i \in 1..Len(sprites) : sprites[i].zIndex <= z
MinZ(sprites) ==
    CHOOSE z \in {sprites[i].zIndex : i \in 1..Len(sprites)} :
        \A i \in 1..Len(sprites) : sprites[i].zIndex >= z

\* variant: the sprite is put above the others and the collection is not
\* renumbered
MoveLayerToFront_NoReindex(M, id) ==
    LET p == FindIndex(M.state.sprites, id)
    IN IF p = 0 THEN M
       ELSE SaveSnapshot([M EXCEPT !.state.sprites[p].zIndex = MaxZ(M.state.sprites) + 1])

MoveLayerToFront(M, id) ==
    LET p == FindIndex(M.state.sprites, id)
    IN IF p = 0 THEN M
       ELSE SaveSnapshot([M EXCEPT !.state.sprites =
                ReindexZOrder([@ EXCEPT ![p].zIndex = MaxZ(M.state.sprites) + 1])])

MoveLayerToBack(M, id) ==
    LET p == FindIndex(M.state.sprites, id)
    IN IF p = 0 THEN M
       ELSE SaveSnapshot([M EXCEPT !.state.sprites =
                ReindexZOrder([@ EXCEPT ![p].zIndex = MinZ(M.state.sprites) - 1])])

\* variant: the floor test lets the last entry go; JSON.parse(undefined)
\* then throws and the state stays
UndoOp_NoFloor(M) ==
    IF Len(M.undoStack) < 1 THEN M
    ELSE LET current == Top(M.undoStack)
             rest == Pop(M.undoStack)
         IN [M EXCEPT !.undoStack = rest,
                      !.redoStack = Append(@, current),
                      !.state = IF Len(rest) = 0 THEN @ ELSE Deserialize(Top(rest))]

\* variant: the state is restored from the entry that was popped
UndoOp_RestoresPopped(M) ==
    IF Len(M.undoStack) <= 1 THEN M
    ELSE LET current == Top(M.undoStack)
             rest == Pop(M.undoStack)
         IN [M EXCEPT !.undoStack = rest,
                      !.redoStack = Append(@, current),
                      !.state = Deserialize(current)]

\* variant: the restored entry is written to the store
UndoOp_Persists(M) ==
    IF Len(M.undoStack) <= 1 THEN M
    ELSE LET current == Top(M.undoStack)
             rest == Pop(M.undoStack)
         IN [M EXCEPT !.undoStack = rest,
                      !.redoStack = Append(@, current),
                      !.state = Deserialize(Top(rest)),
                      !.storage = SetItem(M.storage, Top(rest))]

UndoOp(M) ==
    IF Len(M.undoStack) <= 1 THEN M
    ELSE LET current == Top(M.undoStack)
             rest == Pop(M.undoStack)
         IN [M EXCEPT !.undoStack = rest,
                      !.redoStack = Append(@, current),
                      !.state = Deserialize(Top(rest))]

\* variant: the state is restored from the top of the undo stack as redo
\* found it, the way undo reads it
RedoOp_RestoresOldTop(M) ==
    IF Len(M.redoStack) = 0 THEN M
    ELSE LET next == Top(M.redoStack)
         IN [M EXCEPT !.redoStack = Pop(@),
                      !.undoStack = Append(@, next),
                      !.state = Deserialize(Top(M.undoStack))]

RedoOp(M) ==
    IF Len(M.redoStack) = 0 THEN M
    ELSE LET next == Top(M.redoStack)
         IN [M EXCEPT !.redoStack = Pop(@),
                      !.undoStack = Append(@, next),
                      !.state = Deserialize(next)]

CanUndo(M) == Len(M.undoStack) > 1

CanRedo(M) == Len(M.redoStack) > 0

\* variant: the fallback forgets to seed the undo stack
LoadFromLocalStorage_NoBaseline(M) ==
    LET stored == M.storage
    IN IF stored[1] = "doc" /\ HasSpritesArray(stored[2])
       THEN [M EXCEPT !.state = Deserialize(stored[2]),
                      !.undoStack = <<stored[2]>>,
                      !.redoStack = <<>>]
       ELSE M

\* stored is <<"absent">> or <<"full">> (getItem gives null), <<"garbage">>
\* (JSON.parse throws) or <<"doc", d>> (a JSON object text)
LoadFromLocalStorage(M) ==
    LET stored == M.storage
    IN IF stored[1] = "doc" /\ HasSpritesArray(stored[2])
       THEN [M EXCEPT !.state = Deserialize(stored[2]),
                      !.undoStack = <<stored[2]>>,
                      !.redoStack = <<>>]
       ELSE [M EXCEPT !.undoStack = <<Serialize(M.state)>>]

(***************************************************************************)
(* Math of the JavaScript runtime, in fixed point                          *)
(***************************************************************************)
RECURSIVE SqrtSearch(_, _, _)
SqrtSearch(n, lo, hi) ==
    IF lo >= hi THEN lo
    ELSE LET mid == (lo + hi + 1) \div 2
         IN IF mid * mid <= n THEN SqrtSearch(n, mid, hi)
            ELSE SqrtSearch(n, lo, mid - 1)

\* Math.sqrt, rounded down
Sqrt(n) == SqrtSearch(n, 0, 46340)

\* Math.sqrt(a * a + b * b); large operands are scaled so that the squares
\* stay inside TLC's integers
Hypot(a, b) ==
    IF Abs(a) > 30000 \/ Abs(b) > 30000
    THEN 100 * Sqrt(RoundDiv(a, 100) * RoundDiv(a, 100) + RoundDiv(b, 100) * RoundDiv(b, 100))
    ELSE Sqrt(a * a + b * b)

\* Math.sin of d degrees, in thousandths (Bhaskara's rational form: exact
\* at the multiples of 30 and 90 degrees, within 0.002 elsewhere)
SinDeg(d) ==
    LET m == d % 360
        h == IF m > 180 THEN m - 180 ELSE m
        v == RoundDiv(4 * h * (180 - h) * TRIG, 40500 - h * (180 - h))
    IN IF m > 180 THEN -v ELSE v

CosDeg(d) == SinDeg(d + 90)

\* atan of p / q in whole degrees, for 0 <= p <= q, q > 0 (exact at 0 and 45)
AtanRatio(p, q) == RoundDiv(4500 * p * q + 1564 * p * (q - p), 100 * q * q)

\* Math.atan2(y, x) * 180 / Math.PI, in whole degrees, in (-180, 180]
Atan2Deg(y, x) ==
    LET ax == Abs(x)
        ay == Abs(y)
        a == IF ax = 0 /\ ay = 0 THEN 0
             ELSE IF ax >= ay THEN AtanRatio(ay, ax)
             ELSE 90 - AtanRatio(ax, ay)
    IN IF x >= 0 /\ y >= 0 THEN a
       ELSE IF x < 0 /\ y >= 0 THEN 180 - a
       ELSE IF x < 0 THEN a - 180
       ELSE -a

(***************************************************************************)
(* CanvasRenderer: bounds and hit testing                                  *)
(***************************************************************************)
\* ctx.measureText(emoji) at the base font size: the ink extents of a glyph
GlyphMetrics(emoji) ==
    IF emoji = "B" THEN [left |-> 2, right |-> 26, ascent |-> 22, descent |-> 6]
    ELSE IF emoji = "." THEN [left |-> 1, right |-> 11, ascent |-> 12, descent |-> 0]
    ELSE [left |-> 0, right |-> 40, ascent |-> 30, descent |-> 10]

\* width and height in hundredths of a world unit
GetSpriteBounds(sp) ==
    LET m == GlyphMetrics(sp.emoji)
    IN [width |-> (m.left + m.right) * sp.scaleX,
        height |-> (m.ascent + m.descent) * sp.scaleY]

\* rotatePoint(x, y, rotation), in thousandths of the unit of x and y
RotatePoint(x, y, rotation) ==
    [x |-> x * CosDeg(rotation) - y * SinDeg(rotation),
     y |-> x * SinDeg(rotation) + y * CosDeg(rotation)]

IsPointInSprite(sp, worldX, worldY) ==
    LET bounds == GetSpriteBounds(sp)
        rotated == RotatePoint(worldX - sp.x, worldY - sp.y, -sp.rotation)
    IN /\ 2 * FP * rotated.x >= -bounds.width * TRIG
       /\ 2 * FP * rotated.x <= bounds.width * TRIG
       /\ 2 * FP * rotated.y >= -bounds.height * TRIG
       /\ 2 * FP * rotated.y <= bounds.height * TRIG

\* [...sprites].sort((a, b) => b.zIndex - a.zIndex): 0-based place of sprites[i]
RankDescending(sprites, i) ==
    Cardinality({j \in 1..Len(sprites) :
        \/ sprites[j].zIndex > sprites[i].zIndex
        \/ sprites[j].zIndex = sprites[i].zIndex /\ j < i})

\* variant: the first sprite of the collection that holds the point wins
HitTest_CollectionOrder(sprites, worldX, worldY) ==
    LET hits == {i \in 1..Len(sprites) : IsPointInSprite(sprites[i], worldX, worldY)}
    IN IF hits = {} THEN NullId
       ELSE sprites[CHOOSE i \in hits : \A j \in hits : i <= j].id

HitTest(sprites, worldX, worldY) ==
    LET hits == {i \in 1..Len(sprites) : IsPointInSprite(sprites[i], worldX, worldY)}
    IN IF hits = {} THEN NullId
       ELSE sprites[CHOOSE i \in hits :
                \A j \in hits : RankDescending(sprites, i) <= RankDescending(sprites, j)].id

(***************************************************************************)
(* Gizmo.  Its fields are the record                                       *)
(*   G = [mode, dragStartPos, dragStartSpriteState, dragStartLocalPos,     *)
(*        captured]                                                        *)
(* and a handler maps [M, G] to the new [M, G].                            *)
(***************************************************************************)
Null == [null |-> TRUE]

ScalingModes ==
    {"ScalingTopLeft", "ScalingTopRight", "ScalingBottomLeft", "ScalingBottomRight"}
ActiveModes == {"Dragging", "Rotating"} \cup ScalingModes

\* the five handles in the order of localHandles; x and y in hundredths
GetHandles(sp) ==
    LET bounds == GetSpriteBounds(sp)
        \* margined sizes; the local anchors are kept doubled (halves of these)
        marginedWidth == bounds.width + BOUNDS_MARGIN * 2 * FP
        marginedHeight == bounds.height + BOUNDS_MARGIN * 2 * FP
        localHandles ==
            << [x |-> -marginedWidth, y |-> -marginedHeight, mode |-> "ScalingTopLeft"],
               [x |-> marginedWidth, y |-> -marginedHeight, mode |-> "ScalingTopRight"],
               [x |-> -marginedWidth, y |-> marginedHeight, mode |-> "ScalingBottomLeft"],
               [x |-> marginedWidth, y |-> marginedHeight, mode |-> "ScalingBottomRight"],
               [x |-> 0, y |-> -marginedHeight - ROTATION_HANDLE_OFFSET * 2 * FP,
                mode |-> "Rotating"] >>
    IN [i \in 1..5 |->
          LET rotated == RotatePoint(localHandles[i].x, localHandles[i].y, sp.rotation)
          IN [x |-> sp.x * FP + RoundDiv(rotated.x, 2 * TRIG),
              y |-> sp.y * FP + RoundDiv(rotated.y, 2 * TRIG),
              width |-> IF localHandles[i].mode = "Rotating"
                        THEN ROTATION_HANDLE_RADIUS * 2 ELSE HANDLE_HIT_SIZE,
              height |-> IF localHandles[i].mode = "Rotating"
                         THEN ROTATION_HANDLE_RADIUS * 2 ELSE HANDLE_HIT_SIZE,
              mode |-> localHandles[i].mode]]

\* point in world units, rect centre in hundredths, rect size in world units
IsPointInRect(point, rect) ==
    /\ 2 * point.x * FP >= 2 * rect.x - rect.width * FP
    /\ 2 * point.x * FP <= 2 * rect.x + rect.width * FP
    /\ 2 * point.y * FP >= 2 * rect.y - rect.height * FP
    /\ 2 * point.y * FP <= 2 * rect.y + rect.height * FP

\* Math.sqrt(dx * dx + dy * dy) <= radius
IsPointInCircle(point, center, radius) ==
    LET dx == point.x * FP - center.x
        dy == point.y * FP - center.y
    IN /\ Abs(dx) <= radius * FP
       /\ Abs(dy) <= radius * FP
       /\ dx * dx + dy * dy <= radius * FP * radius * FP

\* local coordinates in hundredths; scales in hundredths
WorldToLocalWithScale(spriteX, spriteY, rotation, scaleX, scaleY, worldX, worldY) ==
    LET rotated == RotatePoint(worldX - spriteX, worldY - spriteY, -rotation)
    IN [x |-> RoundDiv(rotated.x * 10, scaleX),
        y |-> RoundDiv(rotated.y * 10, scaleY)]

WorldToLocal(sp, worldX, worldY) ==
    WorldToLocalWithScale(sp.x, sp.y, sp.rotation, sp.scaleX, sp.scaleY, worldX, worldY)

IdleGizmo(G) ==
    [G EXCEPT !.mode = "None", !.dragStartPos = Null,
              !.dragStartSpriteState = Null, !.dragStartLocalPos = Null]

\* the session a pointer-down starts on sprite sp
StartSession(G, newMode, mousePos, sp, pointerId) ==
    [G EXCEPT !.mode = newMode, !.dragStartPos = mousePos,
              !.dragStartSpriteState = sp,
              !.captured = @ \cup {pointerId}]

\* variant: the last corner handle that contains the point wins
CornerHit_LastWins(handles, mousePos) ==
    LET hit == {i \in 1..5 : handles[i].mode # "Rotating" /\ IsPointInRect(mousePos, handles[i])}
    IN IF hit = {} THEN 0 ELSE CHOOSE i \in hit : \A j \in hit : i >= j

\* the first corner handle of the selected sprite that contains the point, 0
\* when none
CornerHit(handles, mousePos) ==
    LET hit == {i \in 1..5 : handles[i].mode # "Rotating" /\ IsPointInRect(mousePos, handles[i])}
    IN IF hit = {} THEN 0 ELSE CHOOSE i \in hit : \A j \in hit : i <= j

\* variant: the selection a pointer-down makes waits for the release to be
\* committed
HitSelectDrag_SelectsProvisionally(M, G, mousePos, pointerId) ==
    LET hitId == HitTest(M.state.sprites, mousePos.x, mousePos.y)
    IN IF hitId # NullId
       THEN LET M1 == [M EXCEPT !.state.selectedId = hitId]
                i == SelectedIndex(M1.state)
            IN [M |-> M1,
                G |-> IF i # 0
                      THEN StartSession(G, "Dragging", mousePos, M1.state.sprites[i], pointerId)
                      ELSE G]
       ELSE [M |-> [M EXCEPT !.state.selectedId = NullId], G |-> G]

\* lines 129-147: hit test, select and drag, or deselect
HitSelectDrag(M, G, mousePos, pointerId) ==
    LET hitId == HitTest(M.state.sprites, mousePos.x, mousePos.y)
    IN IF hitId # NullId
       THEN LET M1 == SelectSprite(M, hitId)
                i == SelectedIndex(M1.state)
            IN [M |-> M1,
                G |-> IF i # 0
                      THEN StartSession(G, "Dragging", mousePos, M1.state.sprites[i], pointerId)
                      ELSE G]
       ELSE [M |-> SelectSprite(M, NullId), G |-> G]

OnPointerDown(M, G, mousePos, pointerId) ==
    LET sel == SelectedIndex(M.state)
        selected == M.state.sprites[sel]
        handles == GetHandles(selected)
        corner == CornerHit(handles, mousePos)
        hitId == HitTest(M.state.sprites, mousePos.x, mousePos.y)
    IN IF sel = 0 THEN HitSelectDrag(M, G, mousePos, pointerId)
       ELSE IF IsPointInCircle(mousePos, handles[5], ROTATION_HANDLE_RADIUS)
       THEN [M |-> M, G |-> StartSession(G, "Rotating", mousePos, selected, pointerId)]
       ELSE IF corner # 0
       THEN [M |-> M,
             G |-> [StartSession(G, handles[corner].mode, mousePos, selected, pointerId)
                    EXCEPT !.dragStartLocalPos = WorldToLocal(selected, mousePos.x, mousePos.y)]]
       ELSE IF hitId # NullId /\ hitId # selected.id
       THEN LET M1 == SelectSprite(M, hitId)
                i == SelectedIndex(M1.state)
            IN [M |-> M1,
                G |-> IF i # 0
                      THEN StartSession(G, "Dragging", mousePos, M1.state.sprites[i], pointerId)
                      ELSE G]
       ELSE IF hitId = selected.id
       THEN [M |-> M, G |-> StartSession(G, "Dragging", mousePos, selected, pointerId)]
       ELSE HitSelectDrag(M, G, mousePos, pointerId)

\* this.dragStartSpriteState.scaleX || 1
OrOne(scale) == IF scale = 0 THEN FP ELSE scale

\* variant: the angle is measured from the right of the centre
HandleRotation_FromEast(M, sp, mousePos) ==
    LET degrees == Atan2Deg(mousePos.y - sp.y, mousePos.x - sp.x)
    IN UpdateSpriteWithoutSnapshot(M, sp.id, [rotation |-> degrees])

HandleRotation(M, sp, mousePos) ==
    LET degrees == Atan2Deg(mousePos.y - sp.y, mousePos.x - sp.x) + 90
    IN UpdateSpriteWithoutSnapshot(M, sp.id, [rotation |-> degrees])

\* variant: the new scales are not floored
HandleScaling_NoFloor(M, G, sp, mousePos, shiftKey) ==
    LET start == G.dragStartLocalPos
        startScaleX == OrOne(G.dragStartSpriteState.scaleX)
        startScaleY == OrOne(G.dragStartSpriteState.scaleY)
        currentLocal == WorldToLocalWithScale(sp.x, sp.y, sp.rotation,
                            startScaleX, startScaleY, mousePos.x, mousePos.y)
        \* Math.abs(v) > 0.001
        Far(v) == Abs(v) * 1000 > FP
        stretchX == IF Far(start.x) THEN RoundDiv(startScaleX * currentLocal.x, start.x)
                    ELSE startScaleX
        stretchY == IF Far(start.y) THEN RoundDiv(startScaleY * currentLocal.y, start.y)
                    ELSE startScaleY
        startDist == Hypot(start.x, start.y)
        currentDist == Hypot(currentLocal.x, currentLocal.y)
        uniformX == IF Far(startDist) THEN RoundDiv(startScaleX * currentDist, startDist)
                    ELSE startScaleX
        uniformY == IF Far(startDist) THEN RoundDiv(startScaleY * currentDist, startDist)
                    ELSE startScaleY
    IN IF G.dragStartPos = Null \/ G.dragStartSpriteState = Null \/ start = Null THEN M
       ELSE IF shiftKey
       THEN UpdateSpriteWithoutSnapshot(M, sp.id,
                [scaleX |-> Abs(stretchX), scaleY |-> Abs(stretchY)])
       ELSE UpdateSpriteWithoutSnapshot(M, sp.id,
                [scaleX |-> uniformX, scaleY |-> uniformY])

\* variant: the ratio of the uniform scale is taken along x alone
HandleScaling_DominantAxis(M, G, sp, mousePos, shiftKey) ==
    LET start == G.dragStartLocalPos
        startScaleX == OrOne(G.dragStartSpriteState.scaleX)
        startScaleY == OrOne(G.dragStartSpriteState.scaleY)
        currentLocal == WorldToLocalWithScale(sp.x, sp.y, sp.rotation,
                            startScaleX, startScaleY, mousePos.x, mousePos.y)
        \* Math.abs(v) > 0.001
        Far(v) == Abs(v) * 1000 > FP
        stretchX == IF Far(start.x) THEN RoundDiv(startScaleX * currentLocal.x, start.x)
                    ELSE startScaleX
        stretchY == IF Far(start.y) THEN RoundDiv(startScaleY * currentLocal.y, start.y)
                    ELSE startScaleY
        startDist == Abs(start.x)
        currentDist == Abs(currentLocal.x)
        uniformX == IF Far(startDist) THEN RoundDiv(startScaleX * currentDist, startDist)
                    ELSE startScaleX
        uniformY == IF Far(startDist) THEN RoundDiv(startScaleY * currentDist, startDist)
                    ELSE startScaleY
    IN IF G.dragStartPos = Null \/ G.dragStartSpriteState = Null \/ start = Null THEN M
       ELSE IF shiftKey
       THEN UpdateSpriteWithoutSnapshot(M, sp.id,
                [scaleX |-> Max(FP \div 10, Abs(stretchX)),
                 scaleY |-> Max(FP \div 10, Abs(stretchY))])
       ELSE UpdateSpriteWithoutSnapshot(M, sp.id,
                [scaleX |-> Max(FP \div 10, uniformX),
                 scaleY |-> Max(FP \div 10, uniformY)])

\* variant: the new scales are taken from the sprite's current scales
HandleScaling_LiveScale(M, G, sp, mousePos, shiftKey) ==
    LET start == G.dragStartLocalPos
        startScaleX == OrOne(sp.scaleX)
        startScaleY == OrOne(sp.scaleY)
        currentLocal == WorldToLocalWithScale(sp.x, sp.y, sp.rotation,
                            startScaleX, startScaleY, mousePos.x, mousePos.y)
        Far(v) == Abs(v) * 1000 > FP
        stretchX == IF Far(start.x) THEN RoundDiv(startScaleX * currentLocal.x, start.x)
                    ELSE startScaleX
        stretchY == IF Far(start.y) THEN RoundDiv(startScaleY * currentLocal.y, start.y)
                    ELSE startScaleY
        startDist == Hypot(start.x, start.y)
        currentDist == Hypot(currentLocal.x, currentLocal.y)
        uniformX == IF Far(startDist) THEN RoundDiv(startScaleX * currentDist, startDist)
                    ELSE startScaleX
        uniformY == IF Far(startDist) THEN RoundDiv(startScaleY * currentDist, startDist)
                    ELSE startScaleY
    IN IF G.dragStartPos = Null \/ G.dragStartSpriteState = Null \/ start = Null THEN M
       ELSE IF shiftKey
       THEN UpdateSpriteWithoutSnapshot(M, sp.id,
                [scaleX |-> Max(FP \div 10, Abs(stretchX)),
                 scaleY |-> Max(FP \div 10, Abs(stretchY))])
       ELSE UpdateSpriteWithoutSnapshot(M, sp.id,
                [scaleX |-> Max(FP \div 10, uniformX),
                 scaleY |-> Max(FP \div 10, uniformY)])

\* variant: with the modifier, a move of a grab that has a coordinate near
\* zero changes nothing
HandleScaling_SkipsWholeMove(M, G, sp, mousePos, shiftKey) ==
    LET start == G.dragStartLocalPos
        startScaleX == OrOne(G.dragStartSpriteState.scaleX)
        startScaleY == OrOne(G.dragStartSpriteState.scaleY)
        currentLocal == WorldToLocalWithScale(sp.x, sp.y, sp.rotation,
                            startScaleX, startScaleY, mousePos.x, mousePos.y)
        Far(v) == Abs(v) * 1000 > FP
        startDist == Hypot(start.x, start.y)
        currentDist == Hypot(currentLocal.x, currentLocal.y)
        uniformX == IF Far(startDist) THEN RoundDiv(startScaleX * currentDist, startDist)
                    ELSE startScaleX
        uniformY == IF Far(startDist) THEN RoundDiv(startScaleY * currentDist, startDist)
                    ELSE startScaleY
    IN IF G.dragStartPos = Null \/ G.dragStartSpriteState = Null \/ start = Null THEN M
       ELSE IF shiftKey
       THEN IF Far(start.x) /\ Far(start.y)
            THEN UpdateSpriteWithoutSnapshot(M, sp.id,
                    [scaleX |-> Max(FP \div 10,
                                    Abs(RoundDiv(startScaleX * currentLocal.x, start.x))),
                     scaleY |-> Max(FP \div 10,
                                    Abs(RoundDiv(startScaleY * currentLocal.y, start.y)))])
            ELSE M
       ELSE UpdateSpriteWithoutSnapshot(M, sp.id,
                [scaleX |-> Max(FP \div 10, uniformX),
                 scaleY |-> Max(FP \div 10, uniformY)])

HandleScaling(M, G, sp, mousePos, shiftKey) ==
    LET start == G.dragStartLocalPos
        startScaleX == OrOne(G.dragStartSpriteState.scaleX)
        startScaleY == OrOne(G.dragStartSpriteState.scaleY)
        currentLocal == WorldToLocalWithScale(sp.x, sp.y, sp.rotation,
                            startScaleX, startScaleY, mousePos.x, mousePos.y)
        \* Math.abs(v) > 0.001
        Far(v) == Abs(v) * 1000 > FP
        stretchX == IF Far(start.x) THEN RoundDiv(startScaleX * currentLocal.x, start.x)
                    ELSE startScaleX
        stretchY == IF Far(start.y) THEN RoundDiv(startScaleY * currentLocal.y, start.y)
                    ELSE startScaleY
        startDist == Hypot(start.x, start.y)
        currentDist == Hypot(currentLocal.x, currentLocal.y)
        uniformX == IF Far(startDist) THEN RoundDiv(startScaleX * currentDist, startDist)
                    ELSE startScaleX
        uniformY == IF Far(startDist) THEN RoundDiv(startScaleY * currentDist, startDist)
                    ELSE startScaleY
    IN IF G.dragStartPos = Null \/ G.dragStartSpriteState = Null \/ start = Null THEN M
       ELSE IF shiftKey
       THEN UpdateSpriteWithoutSnapshot(M, sp.id,
                [scaleX |-> Max(FP \div 10, Abs(stretchX)),
                 scaleY |-> Max(FP \div 10, Abs(stretchY))])
       ELSE UpdateSpriteWithoutSnapshot(M, sp.id,
                [scaleX |-> Max(FP \div 10, uniformX),
                 scaleY |-> Max(FP \div 10, uniformY)])

\* variant: in Idle mode the sprite under the pointer becomes the selection
OnPointerMove_HoverSelects(M, G, mousePos, shiftKey) ==
    LET hitId == HitTest(M.state.sprites, mousePos.x, mousePos.y)
    IN IF G.mode = "None" /\ hitId # NullId THEN SelectSprite(M, hitId) ELSE M

\* variant: a drag adds the displacement to the sprite's current position
OnPointerMove_Accumulates(M, G, mousePos, shiftKey) ==
    LET sel == SelectedIndex(M.state)
        selected == M.state.sprites[sel]
        dx == mousePos.x - G.dragStartPos.x
        dy == mousePos.y - G.dragStartPos.y
    IN IF G.mode = "None" \/ G.dragStartPos = Null \/ G.dragStartSpriteState = Null THEN M
       ELSE IF sel = 0 THEN M
       ELSE IF G.mode = "Dragging"
       THEN UpdateSpriteWithoutSnapshot(M, selected.id,
                [x |-> selected.x + dx, y |-> selected.y + dy])
       ELSE IF G.mode = "Rotating" THEN HandleRotation(M, selected, mousePos)
       ELSE HandleScaling(M, G, selected, mousePos, shiftKey)

\* variant: a drag also raises the sprite above the others
OnPointerMove_DragRaises(M, G, mousePos, shiftKey) ==
    LET sel == SelectedIndex(M.state)
        selected == M.state.sprites[sel]
        dx == mousePos.x - G.dragStartPos.x
        dy == mousePos.y - G.dragStartPos.y
    IN IF G.mode = "None" \/ G.dragStartPos = Null \/ G.dragStartSpriteState = Null THEN M
       ELSE IF sel = 0 THEN M
       ELSE IF G.mode = "Dragging"
       THEN UpdateSpriteWithoutSnapshot(M, selected.id,
                [x |-> G.dragStartSpriteState.x + dx,
                 y |-> G.dragStartSpriteState.y + dy,
                 zIndex |-> Len(M.state.sprites)])
       ELSE IF G.mode = "Rotating" THEN HandleRotation(M, selected, mousePos)
       ELSE HandleScaling(M, G, selected, mousePos, shiftKey)

\* this.dragStartSpriteState.x || 0 is the value itself for a number
OnPointerMove(M, G, mousePos, shiftKey) ==
    LET sel == SelectedIndex(M.state)
        selected == M.state.sprites[sel]
        dx == mousePos.x - G.dragStartPos.x
        dy == mousePos.y - G.dragStartPos.y
    IN IF G.mode = "None" \/ G.dragStartPos = Null \/ G.dragStartSpriteState = Null THEN M
       ELSE IF sel = 0 THEN M
       ELSE IF G.mode = "Dragging"
       THEN UpdateSpriteWithoutSnapshot(M, selected.id,
                [x |-> G.dragStartSpriteState.x + dx,
                 y |-> G.dragStartSpriteState.y + dy])
       ELSE IF G.mode = "Rotating" THEN HandleRotation(M, selected, mousePos)
       ELSE HandleScaling(M, G, selected, mousePos, shiftKey)

\* variant: the release ends the session without committing
OnPointerUp_NoFinalize(M, G, pointerId) ==
    [M |-> M,
     G |-> [IdleGizmo(G) EXCEPT !.captured = @ \ {pointerId}]]

OnPointerUp(M, G, pointerId) ==
    [M |-> IF G.mode # "None" THEN FinalizeChanges(M) ELSE M,
     G |-> [IdleGizmo(G) EXCEPT !.captured = @ \ {pointerId}]]

\* variant: a cancelled session puts the drag-start values back and ends
\* without committing
OnPointerCancel_Reverts(M, G, pointerId) ==
    [M |-> IF G.mode # "None" /\ G.dragStartSpriteState # Null
           THEN UpdateSpriteWithoutSnapshot(M, G.dragStartSpriteState.id,
                                            G.dragStartSpriteState)
           ELSE M,
     G |-> [IdleGizmo(G) EXCEPT !.captured = @ \ {pointerId}]]

\* the pointercancel listener: (e) => this.onPointerUp(e)
OnPointerCancel(M, G, pointerId) == OnPointerUp(M, G, pointerId)

(***************************************************************************)
(* StateManager.importJSON.  The text is <<"garbage">> (JSON.parse         *)
(* throws), <<"arr", elements>> or <<"obj", doc>>; an element is           *)
(* <<"null">> or <<"obj", members>>.  Numeric members are JSON numbers.    *)
(***************************************************************************)
IsNum(t) == t[1] = "num"
\* value || fallback, for a number or undefined
NumOr(t, fallback) == IF IsNum(t) /\ t[2] # 0 THEN t[2] ELSE fallback
\* value !== undefined ? value : fallback
NumElse(t, fallback) == IF IsNum(t) THEN t[2] ELSE fallback
\* sprite.e || sprite.emoji
StrOr(t, u) ==
    IF t[1] = "str" /\ t[2] # "" THEN t[2]
    ELSE IF u[1] = "str" THEN u[2] ELSE Undefined

\* `one` is the fixed-point value of the scale 1
ImportSpriteAt(el, index, nextId, one) ==
    LET s == Member(el, "s")
        sx == Member(el, "sx")
        sy == Member(el, "sy")
        scaleX == Member(el, "scaleX")
        scaleY == Member(el, "scaleY")
        scale == Member(el, "scale")
        scales ==
            IF IsNum(s) THEN <<s[2], s[2]>>
            ELSE IF IsNum(sx) \/ IsNum(sy) THEN <<NumElse(sx, one), NumElse(sy, one)>>
            ELSE IF IsNum(scaleX) \/ IsNum(scaleY)
            THEN <<NumElse(scaleX, one), NumElse(scaleY, one)>>
            ELSE IF IsNum(scale) THEN <<scale[2], scale[2]>>
            ELSE <<one, one>>
    IN [id |-> nextId + index,
        emoji |-> StrOr(Member(el, "e"), Member(el, "emoji")),
        x |-> NumOr(Member(el, "x"), 0),
        y |-> NumOr(Member(el, "y"), 0),
        rotation |-> NumElse(Member(el, "r"), NumOr(Member(el, "rotation"), 0)),
        scaleX |-> scales[1],
        scaleY |-> scales[2],
        zIndex |-> index]

ImportSprite(el, index, nextId) == ImportSpriteAt(el, index, nextId, FP)

\* the onChange listener of the editor, run by notifyListeners: render draws
\* every sprite, and drawSprite reads the fields of its argument, which
\* throws when the sprite is null
ListenerThrows(st) == \E i \in 1..Len(st.sprites) : st.sprites[i] = Null

\* [M, ok]: the manager after the call and the value returned; whatever is
\* thrown inside the call, by JSON.parse, by the mapping of a null element
\* or by a listener, is caught and makes the call return false
ImportJSONAt(M, text, one) ==
    IF text[1] = "arr"
    THEN IF \E i \in 1..Len(text[2]) : text[2][i][1] # "obj"
         THEN [M |-> M, ok |-> FALSE]
         ELSE LET sprites == [i \in 1..Len(text[2]) |->
                                ImportSpriteAt(text[2][i][2], i - 1, M.state.nextId, one)]
              IN [M |-> SaveSnapshot([M EXCEPT !.state.sprites = sprites,
                                               !.state.nextId = @ + Len(sprites),
                                               !.state.selectedId = NullId]),
                  ok |-> TRUE]
    ELSE IF text[1] = "obj" /\ HasSpritesArray(text[2])
    THEN LET imported == Deserialize(text[2])
         IN [M |-> SaveSnapshot([M EXCEPT !.state = imported]),
             ok |-> ~ListenerThrows(imported)]
    ELSE [M |-> M, ok |-> FALSE]

ImportJSON(M, text) == ImportJSONAt(M, text, FP)

(***************************************************************************)
(* StateManager.exportJSON.  Numbers are fixed-point: `u` gives the steps  *)
(* a position counts to the pixel (u.x), a rotation to the degree (u.r)    *)
(* and a scale to 1 (u.s).                                                 *)
(***************************************************************************)
\* Math.round(a / b) for b > 0: the nearest integer, a half going up
MathRound(a, b) == (a \div b) + (IF 2 * (a % b) >= b THEN 1 ELSE 0)
\* Math.round(v * grid) / grid, of a value that counts `unit` steps to 1
RoundTo(v, unit, grid) == (MathRound(v * grid, unit) * unit) \div grid

\* variant: the position is written whatever its value
ExportSpriteAt_WritesDefaults(sprite, u) ==
    LET x == RoundTo(sprite.x, u.x, 100)
        y == RoundTo(sprite.y, u.x, 100)
        rotation == RoundTo(sprite.rotation, u.r, 10)
        scaleX == RoundTo(sprite.scaleX, u.s, 10000)
        scaleY == RoundTo(sprite.scaleY, u.s, 10000)
    IN Present(<< <<"e", IF sprite.emoji = Undefined THEN <<"undefined">>
                         ELSE StrToken(sprite.emoji)>> >>)
       \o << <<"x", NumToken(x)>> >>
       \o << <<"y", NumToken(y)>> >>
       \o (IF rotation # 0 THEN << <<"r", NumToken(rotation)>> >> ELSE <<>>)
       \o (IF scaleX = scaleY /\ scaleX # u.s
           THEN << <<"s", NumToken(scaleX)>> >>
           ELSE (IF scaleX # u.s THEN << <<"sx", NumToken(scaleX)>> >> ELSE <<>>)
                \o (IF scaleY # u.s THEN << <<"sy", NumToken(scaleY)>> >> ELSE <<>>))

\* variant: the scale form is chosen by the scales as they are, not as
\* they are written
ExportSpriteAt_ComparesUnrounded(sprite, u) ==
    LET x == RoundTo(sprite.x, u.x, 100)
        y == RoundTo(sprite.y, u.x, 100)
        rotation == RoundTo(sprite.rotation, u.r, 10)
        scaleX == RoundTo(sprite.scaleX, u.s, 10000)
        scaleY == RoundTo(sprite.scaleY, u.s, 10000)
    IN Present(<< <<"e", IF sprite.emoji = Undefined THEN <<"undefined">>
                         ELSE StrToken(sprite.emoji)>> >>)
       \o (IF x # 0 THEN << <<"x", NumToken(x)>> >> ELSE <<>>)
       \o (IF y # 0 THEN << <<"y", NumToken(y)>> >> ELSE <<>>)
       \o (IF rotation # 0 THEN << <<"r", NumToken(rotation)>> >> ELSE <<>>)
       \o (IF sprite.scaleX = sprite.scaleY /\ sprite.scaleX # u.s
           THEN << <<"s", NumToken(scaleX)>> >>
           ELSE (IF scaleX # u.s THEN << <<"sx", NumToken(scaleX)>> >> ELSE <<>>)
                \o (IF scaleY # u.s THEN << <<"sy", NumToken(scaleY)>> >> ELSE <<>>))

\* the compact object of one sprite, its members in the order they are set
ExportSpriteAt(sprite, u) ==
    LET x == RoundTo(sprite.x, u.x, 100)
        y == RoundTo(sprite.y, u.x, 100)
        rotation == RoundTo(sprite.rotation, u.r, 10)
        scaleX == RoundTo(sprite.scaleX, u.s, 10000)
        scaleY == RoundTo(sprite.scaleY, u.s, 10000)
    IN Present(<< <<"e", IF sprite.emoji = Undefined THEN <<"undefined">>
                         ELSE StrToken(sprite.emoji)>> >>)
       \o (IF x # 0 THEN << <<"x", NumToken(x)>> >> ELSE <<>>)
       \o (IF y # 0 THEN << <<"y", NumToken(y)>> >> ELSE <<>>)
       \o (IF rotation # 0 THEN << <<"r", NumToken(rotation)>> >> ELSE <<>>)
       \o (IF scaleX = scaleY /\ scaleX # u.s
           THEN << <<"s", NumToken(scaleX)>> >>
           ELSE (IF scaleX # u.s THEN << <<"sx", NumToken(scaleX)>> >> ELSE <<>>)
                \o (IF scaleY # u.s THEN << <<"sy", NumToken(scaleY)>> >> ELSE <<>>))

\* variant: the sprites are written in the order of the collection
ExportJSONAt_CollectionOrder(st, u) ==
    <<"arr", [r \in 1..Len(st.sprites) |-> <<"obj", ExportSpriteAt(st.sprites[r], u)>>]>>

\* JSON.stringify(compactSprites): the text of the array, lowest zIndex first
ExportJSONAt(st, u) ==
    LET sorted == SortedByZ(st.sprites)
    IN <<"arr", [r \in 1..Len(st.sprites) |->
                    <<"obj", ExportSpriteAt(st.sprites[sorted[r]], u)>>]>>

(***************************************************************************)
(* Inputs of the exploration                                               *)
(***************************************************************************)
Emojis == {"A", "B"}
Fonts == {"OpenMoji"}
PointerIds == {1}
\* pointer positions in world units: on the body of a fresh sprite at the
\* origin, on its four corner handles (the bottom right one lies under the
\* second sprite of StoredState), on its rotation handle, on the second
\* sprite of StoredState alone, and on no sprite
Points ==
    {[x |-> 0, y |-> 0], [x |-> 24, y |-> 24], [x |-> -24, y |-> -24],
     [x |-> 24, y |-> -24], [x |-> -24, y |-> 24], [x |-> 0, y |-> -49],
     [x |-> 48, y |-> 48], [x |-> -48, y |-> 48]}
NudgeKeys ==
    {[dx |-> -1, dy |-> 0], [dx |-> 0, dy |-> 1]}
\* values typed into the property panel: a wide sprite turned by a quarter,
\* whose rotation handle lies over the second sprite of StoredState, and a
\* sprite at the smallest scale, whose four corner handles overlap
PanelInputs ==
    {[emoji |-> "B", x |-> 5, y |-> 48, rotation |-> 90, scaleX |-> 2 * FP, scaleY |-> FP],
     [emoji |-> "B", x |-> 24, y |-> 24, rotation |-> 0, scaleX |-> FP \div 10,
      scaleY |-> FP \div 10]}

\* a state saved by an earlier session: two sprites, the first selected,
\* written by a version of the editor whose state had no customFont
StoredState ==
    [InitialState EXCEPT
        !.sprites = << [id |-> 1, emoji |-> "A", x |-> 0, y |-> 0, rotation |-> 0,
                        scaleX |-> FP, scaleY |-> FP, zIndex |-> 0],
                       [id |-> 2, emoji |-> "B", x |-> 38, y |-> 38, rotation |-> 0,
                        scaleX |-> FP, scaleY |-> FP, zIndex |-> 1] >>,
        !.selectedId = 1, !.nextId = 3, !.customFont = Undefined]

StoredTexts == {<<"absent">>, <<"garbage">>, <<"doc", Serialize(StoredState)>>}

ImportTexts ==
    {<<"garbage">>,
     <<"arr", << <<"obj", << <<"e", StrToken("A")>> >> >>,
                 <<"obj", << <<"e", StrToken("B")>>, <<"x", NumToken(10)>>,
                             <<"r", NumToken(90)>>, <<"s", NumToken(2 * FP)>> >> >> >> >>,
     <<"obj", Serialize([StoredState EXCEPT !.selectedId = NullId])>>}

(***************************************************************************)
(* The state machine                                                       *)
(***************************************************************************)
Manager ==
    [state |-> state, undoStack |-> undoStack, redoStack |-> redoStack,
     storage |-> storage, commits |-> 0, pushes |-> 0]

GizmoFields ==
    [mode |-> mode, dragStartPos |-> dragStartPos,
     dragStartSpriteState |-> dragStartSpriteState,
     dragStartLocalPos |-> dragStartLocalPos, captured |-> captured]

History == [state |-> state, undoStack |-> undoStack, redoStack |-> redoStack]

\* the handler `op` has run and left the manager M and the gizmo G; `last`
\* keeps what the run did: the number of saveSnapshot calls (commits) and of
\* snapshots pushed, the handler's result, whether the redo stack held an
\* entry when it started, for undo, redo and import the history before, and
\* for a pointer listener the event it was given
RanWith(op, cost, M, G, result, before, event) ==
    \E m \in {M}, g \in {G} :
        /\ state' = m.state
        /\ undoStack' = m.undoStack
        /\ redoStack' = m.redoStack
        /\ storage' = m.storage
        /\ mode' = g.mode
        /\ dragStartPos' = g.dragStartPos
        /\ dragStartSpriteState' = g.dragStartSpriteState
        /\ dragStartLocalPos' = g.dragStartLocalPos
        /\ captured' = g.captured
        /\ last' = [op |-> op, commits |-> m.commits, pushes |-> m.pushes,
                    result |-> result, before |-> before,
                    hadRedo |-> Len(redoStack) > 0, event |-> event]
        /\ pressed' = CASE op = "pointerDown" -> pressed \cup {event.pointerId}
                         [] op \in {"pointerUp", "pointerCancel"} ->
                                pressed \ {event.pointerId}
                         [] OTHER -> pressed
        /\ opsLeft' = opsLeft - cost
        /\ UNCHANGED initialized

\* a handler that is not a pointer listener
Ran(op, cost, M, G, result, before) == RanWith(op, cost, M, G, result, before, Null)

\* an editing handler of the host: it costs two units of the exploration,
\* a pointer, undo or redo handler one
RanManager(op, M) == Ran(op, 2, M, GizmoFields, TRUE, Null)

Ready(cost) == initialized /\ opsLeft >= cost

NoHandler ==
    [op |-> "none", commits |-> 0, pushes |-> 0, result |-> TRUE, before |-> Null,
     hadRedo |-> FALSE, event |-> Null]

\* new StateManager() and new Gizmo(), before loadFromLocalStorage
InitFrom(budget, texts) ==
    /\ state = InitialState
    /\ undoStack = <<>>
    /\ redoStack = <<>>
    /\ storage \in texts
    /\ initialized = FALSE
    /\ mode = "None"
    /\ dragStartPos = Null
    /\ dragStartSpriteState = Null
    /\ dragStartLocalPos = Null
    /\ captured = {}
    /\ pressed = {}
    /\ last = NoHandler
    /\ opsLeft = budget

InitWith(budget) == InitFrom(budget, StoredTexts)

Init == InitWith(MaxOps)

\* EmojiSpriteEditor constructor: loadFromLocalStorage()
Load ==
    /\ ~initialized
    /\ LET M == LoadFromLocalStorage(Manager)
       IN /\ state' = M.state
          /\ undoStack' = M.undoStack
          /\ redoStack' = M.redoStack
          /\ last' = [NoHandler EXCEPT !.op = "load",
                        !.result = (storage[1] = "doc" /\ HasSpritesArray(storage[2]))]
    /\ initialized' = TRUE
    /\ UNCHANGED <<storage, mode, dragStartPos, dragStartSpriteState,
                   dragStartLocalPos, captured, pressed, opsLeft>>

\* addSpriteToCanvas
AddSpriteToCanvas ==
    /\ Ready(2)
    /\ \E emoji \in Emojis :
        LET sel == SelectedIndex(state)
        IN IF sel # 0
           THEN RanManager("changeEmoji",
                    UpdateSprite(Manager, state.sprites[sel].id, [emoji |-> emoji]))
           ELSE RanManager("addSprite", AddSprite(Manager, emoji, 0, 0))

\* Ctrl+Z: undo()
Undo ==
    /\ Ready(1)
    /\ Ran("undo", 1, UndoOp(Manager), GizmoFields, CanUndo(Manager), History)

\* Ctrl+Y: redo()
Redo ==
    /\ Ready(1)
    /\ Ran("redo", 1, RedoOp(Manager), GizmoFields, CanRedo(Manager),
           IF last.op = "undo" THEN last.before ELSE Null)

\* Ctrl+D
Duplicate ==
    /\ Ready(2)
    /\ LET sel == SelectedIndex(state)
           selected == state.sprites[sel]
           M1 == AddSprite(Manager, selected.emoji,
                           selected.x + DUPLICATE_OFFSET, selected.y + DUPLICATE_OFFSET)
           newId == state.nextId
           M2 == UpdateSprite(M1, newId,
                    [rotation |-> selected.rotation, scaleX |-> selected.scaleX,
                     scaleY |-> selected.scaleY])
       IN IF sel = 0 THEN RanManager("duplicate", Manager)
          ELSE RanManager("duplicate", SelectSprite(M2, newId))

\* Delete key and the delete button
DeleteSelected ==
    /\ Ready(2)
    /\ LET sel == SelectedIndex(state)
       IN IF sel = 0 THEN RanManager("delete", Manager)
          ELSE RanManager("delete", DeleteSprite(Manager, state.sprites[sel].id))

\* arrow keys
Nudge ==
    /\ Ready(2)
    /\ \E key \in NudgeKeys :
        LET sel == SelectedIndex(state)
            selected == state.sprites[sel]
        IN IF sel = 0 THEN RanManager("nudge", Manager)
           ELSE RanManager("nudge",
                    UpdateSprite(Manager, selected.id,
                                 [x |-> selected.x + key.dx, y |-> selected.y + key.dy]))

\* PropertyPanel.onPropertyChange
PropertyChange ==
    /\ Ready(2)
    /\ \E input \in PanelInputs :
        LET sel == SelectedIndex(state)
        IN IF sel = 0 THEN RanManager("propertyChange", Manager)
           ELSE RanManager("propertyChange",
                    UpdateSprite(Manager, state.sprites[sel].id,
                        [emoji |-> input.emoji, x |-> input.x, y |-> input.y,
                         rotation |-> input.rotation,
                         scaleX |-> Max(FP \div 10, input.scaleX),
                         scaleY |-> Max(FP \div 10, input.scaleY)]))

\* the four layer buttons
Layer ==
    /\ Ready(2)
    /\ LET sel == SelectedIndex(state)
           id == state.sprites[sel].id
       IN IF sel = 0 THEN RanManager("layer", Manager)
          ELSE \/ RanManager("layerFront", MoveLayerToFront(Manager, id))
               \/ RanManager("layerForward", MoveLayerUp(Manager, id))
               \/ RanManager("layerBack", MoveLayerToBack(Manager, id))
               \/ RanManager("layerBackward", MoveLayerDown(Manager, id))

\* the view checkboxes
ViewToggle ==
    /\ Ready(2)
    /\ \E checked \in BOOLEAN :
        \/ RanManager("showOrigin", SetShowOrigin(Manager, checked))
        \/ RanManager("axesOnTop", SetAxesOnTop(Manager, checked))
        \/ RanManager("borderOnTop", SetBorderOnTop(Manager, checked))

\* SettingsDialog.applyFont, after the font has loaded
ApplyFont ==
    /\ Ready(2)
    /\ \E font \in Fonts : RanManager("applyFont", SetCustomFontInput(Manager, font))

\* the Clear button
Clear ==
    /\ Ready(2)
    /\ RanManager("clear", ClearAll(Manager))

\* the import buttons
Import ==
    /\ Ready(2)
    /\ \E text \in ImportTexts :
        LET r == ImportJSON(Manager, text)
        IN Ran("import", 2, r.M, GizmoFields, r.ok, History)

\* a PointerEvent: the world position getMousePos gives, the pointer id, the
\* modifier
PointerEvent(mousePos, pointerId, shiftKey) ==
    [pos |-> mousePos, pointerId |-> pointerId, shiftKey |-> shiftKey]

\* a pointer goes down when it is up, and is released or cancelled when it is
\* down
PointerDownAt(points, pointerIds) ==
    /\ Ready(1)
    /\ \E mousePos \in points, pointerId \in pointerIds \ pressed :
        LET r == OnPointerDown(Manager, GizmoFields, mousePos, pointerId)
        IN RanWith("pointerDown", 1, r.M, r.G, TRUE, Null,
                   PointerEvent(mousePos, pointerId, FALSE))

PointerDownOf(pointerIds) == PointerDownAt(Points, pointerIds)

\* the mouse
PointerDown == PointerDownOf(PointerIds)

\* the modifier is read in the scaling modes only
ShiftKeys == IF mode \in ScalingModes THEN BOOLEAN ELSE {FALSE}

\* the event of a move is kept for the moves of a session
PointerMoveAt(points) ==
    /\ Ready(1)
    /\ \E mousePos \in points, shiftKey \in ShiftKeys :
        RanWith("pointerMove", 1, OnPointerMove(Manager, GizmoFields, mousePos, shiftKey),
                GizmoFields, TRUE, Null,
                IF mode = "None" THEN Null ELSE PointerEvent(mousePos, 0, shiftKey))

PointerMove == PointerMoveAt(Points)

PointerUp ==
    /\ Ready(1)
    /\ \E pointerId \in pressed :
        LET r == OnPointerUp(Manager, GizmoFields, pointerId)
        IN RanWith("pointerUp", 1, r.M, r.G, TRUE, Null, PointerEvent(Null, pointerId, FALSE))

PointerCancel ==
    /\ Ready(1)
    /\ \E pointerId \in pressed :
        LET r == OnPointerCancel(Manager, GizmoFields, pointerId)
        IN RanWith("pointerCancel", 1, r.M, r.G, TRUE, Null,
                   PointerEvent(Null, pointerId, FALSE))

Next ==
    \/ Load
    \/ AddSpriteToCanvas
    \/ Undo
    \/ Redo
    \/ Duplicate
    \/ DeleteSelected
    \/ Nudge
    \/ PropertyChange
    \/ Layer
    \/ ViewToggle
    \/ ApplyFont
    \/ Clear
    \/ Import
    \/ PointerDown
    \/ PointerMove
    \/ PointerUp
    \/ PointerCancel

Spec == Init /\ [][Next]_vars

\* Long histories: a session that starts by flipping the "show origin"
\* checkbox again and again, each flip a commit, until the undo stack is full
\* and beyond, and then goes on with any handlers.
InitFull == InitWith(MaxOpsFull)

FlipShowOrigin ==
    /\ initialized
    /\ opsLeft = MaxOpsFull
    /\ Ran("showOrigin", 0, SetShowOrigin(Manager, ~state.showOrigin),
           GizmoFields, TRUE, Null)

NextFull == Next \/ FlipShowOrigin

SpecFull == InitFull /\ [][NextFull]_vars

\* Touch input: two fingers, each with its own pointer id, on the same canvas.
TouchIds == {1, 2}

InitTouch == InitWith(MaxTouchOps)

TouchDown == PointerDownOf(TouchIds)

NextTouch ==
    \/ Load
    \/ TouchDown
    \/ PointerMove
    \/ PointerUp
    \/ PointerCancel
    \/ AddSpriteToCanvas
    \/ Undo
    \/ Redo
    \/ Duplicate
    \/ DeleteSelected
    \/ Nudge
    \/ PropertyChange
    \/ Layer
    \/ ViewToggle
    \/ ApplyFont
    \/ Clear
    \/ Import

SpecTouch == InitTouch /\ [][NextTouch]_vars

\* The StateManager driven through its public methods, with any sprite id: the
\* ids of the sprites of the collection and one that no sprite has.
CallIds == {state.sprites[i].id : i \in 1..Len(state.sprites)} \cup {state.nextId}

\* a direct call: its argument is kept in place of the event
RanCall(op, id, M) == RanWith(op, 1, M, GizmoFields, TRUE, Null, [id |-> id])

InitManager == InitWith(MaxCalls)

AddSpriteCall ==
    /\ Ready(1)
    /\ \E emoji \in Emojis :
        RanCall("addSprite", state.nextId, AddSprite(Manager, emoji, 0, 0))

DeleteSpriteCall ==
    /\ Ready(1)
    /\ \E id \in CallIds : RanCall("deleteSprite", id, DeleteSprite(Manager, id))

SelectSpriteCall ==
    /\ Ready(1)
    /\ \E id \in CallIds \cup {NullId} : RanCall("selectSprite", id, SelectSprite(Manager, id))

MoveLayerCall ==
    /\ Ready(1)
    /\ \E id \in CallIds :
        \/ RanCall("moveLayerToFront", id, MoveLayerToFront(Manager, id))
        \/ RanCall("moveLayerUp", id, MoveLayerUp(Manager, id))
        \/ RanCall("moveLayerToBack", id, MoveLayerToBack(Manager, id))
        \/ RanCall("moveLayerDown", id, MoveLayerDown(Manager, id))

NextManager ==
    \/ Load
    \/ AddSpriteCall
    \/ DeleteSpriteCall
    \/ SelectSpriteCall
    \/ MoveLayerCall
    \/ Clear
    \/ Import
    \/ Undo
    \/ Redo

SpecManager == InitManager /\ [][NextManager]_vars

\* Storage that fails: the StateManager in a browser whose store takes no
\* write, beside one whose store is empty.
InitStorage == InitFrom(MaxStorageOps, {<<"full">>, <<"absent">>})

SpecStorage == InitStorage /\ [][NextManager]_vars

\* Scaling: a glyph of small ink, whose bottom right corner handle lies at
\* (10, 10) at scale 1; the same glyph turned by a quarter with a mirrored
\* scale along x and a scale along y below the floor; and the same glyph at
\* half the size, whose top left corner handle reaches the centre.
ScaleStoredStates ==
    {[InitialState EXCEPT
        !.sprites = << [id |-> 1, emoji |-> ".", x |-> 0, y |-> 0, rotation |-> 0,
                        scaleX |-> FP, scaleY |-> FP, zIndex |-> 0] >>,
        !.selectedId = 1, !.nextId = 2],
     [InitialState EXCEPT
        !.sprites = << [id |-> 1, emoji |-> ".", x |-> 0, y |-> 0, rotation |-> 90,
                        scaleX |-> -FP, scaleY |-> FP \div 20, zIndex |-> 0] >>,
        !.selectedId = 1, !.nextId = 2],
     [InitialState EXCEPT
        !.sprites = << [id |-> 1, emoji |-> ".", x |-> 0, y |-> 0, rotation |-> 0,
                        scaleX |-> FP \div 2, scaleY |-> FP \div 2, zIndex |-> 0] >>,
        !.selectedId = 1, !.nextId = 2]}

\* pointer positions: on the corner handle at (10, 10), twice as far from
\* the centre along the same ray, off that ray, across the centre, on the
\* centre, on a corner handle of the second sprite, and on a corner handle
\* of the second and third sprites straight below the centre
ScalePoints ==
    {[x |-> 10, y |-> 10], [x |-> 20, y |-> 20], [x |-> 20, y |-> 10],
     [x |-> -20, y |-> -20], [x |-> 0, y |-> 0], [x |-> 4, y |-> 8],
     [x |-> 0, y |-> 4]}

InitScale == InitFrom(MaxScaleOps, {<<"doc", Serialize(st)>> : st \in ScaleStoredStates})

NextScale ==
    \/ Load
    \/ PointerDownAt(ScalePoints, PointerIds)
    \/ PointerMoveAt(ScalePoints)
    \/ PointerUp

SpecScale == InitScale /\ [][NextScale]_vars

\* Rotation: a glyph of small ink away from the origin, upright, whose
\* rotation handle lies straight above its centre, and the same glyph
\* turned by a quarter, whose rotation handle lies to the right of it.
RotateStoredStates ==
    {[InitialState EXCEPT
        !.sprites = << [id |-> 1, emoji |-> ".", x |-> 10, y |-> 10, rotation |-> r,
                        scaleX |-> FP, scaleY |-> FP, zIndex |-> 0] >>,
        !.selectedId = 1, !.nextId = 2] : r \in {0, 90}}

\* pointer positions: on the rotation handle of the upright sprite, straight
\* above the centre; on that of the turned sprite, to the right of the
\* centre; straight below the centre and to the left of it; and two
\* positions on no axis through the centre
RotatePoints ==
    {[x |-> 10, y |-> -25], [x |-> 45, y |-> 10], [x |-> 10, y |-> 30],
     [x |-> -10, y |-> 10], [x |-> 30, y |-> 30], [x |-> 13, y |-> -10]}

InitRotate == InitFrom(MaxRotateOps, {<<"doc", Serialize(st)>> : st \in RotateStoredStates})

NextRotate ==
    \/ Load
    \/ PointerDownAt(RotatePoints, PointerIds)
    \/ PointerMoveAt(RotatePoints)
    \/ PointerUp

SpecRotate == InitRotate /\ [][NextRotate]_vars

\* The interchange format: export and import at the precision of the format.
\* A position counts 1000 steps to the pixel, a rotation 100 to the degree and
\* a scale 100000 to 1, a tenth of what exportJSON rounds to.
FormatUnits == [x |-> 1000, r |-> 100, s |-> 1000 * FP]

\* states saved by an earlier session.  In the first the collection is not in
\* layer order; its sprites have values off the precision of the format and
\* two scales that are written alike, values that are written as the
\* defaults, one scale of 1 and the other not, and every default.  The second
\* holds one sprite.
FormatStoredStates ==
    {[InitialState EXCEPT
        !.sprites = << [id |-> 1, emoji |-> "A", x |-> 12346, y |-> -12344,
                        rotation |-> 4506, scaleX |-> 150004, scaleY |-> 149996,
                        zIndex |-> 1],
                       [id |-> 2, emoji |-> "B", x |-> 4, y |-> -4, rotation |-> -4,
                        scaleX |-> 100004, scaleY |-> 99996, zIndex |-> 0],
                       [id |-> 3, emoji |-> "A", x |-> 0, y |-> 0, rotation |-> 0,
                        scaleX |-> 200000, scaleY |-> 100000, zIndex |-> 2],
                       [id |-> 4, emoji |-> "B", x |-> 1000, y |-> 0, rotation |-> 0,
                        scaleX |-> 100003, scaleY |-> 50000, zIndex |-> 4],
                       [id |-> 5, emoji |-> "A", x |-> 0, y |-> 0, rotation |-> 0,
                        scaleX |-> 100000, scaleY |-> 100000, zIndex |-> 3] >>,
        !.selectedId = 1, !.nextId = 6],
     [InitialState EXCEPT
        !.sprites = << [id |-> 1, emoji |-> "B", x |-> -500, y |-> 250, rotation |-> 35995,
                        scaleX |-> 10000, scaleY |-> 10000, zIndex |-> 0] >>,
        !.nextId = 2]}

FormatStoredTexts ==
    {<<"absent">>} \cup {<<"doc", Serialize(st)>> : st \in FormatStoredStates}

\* texts given to the import: no JSON; the compact schema; the schema of full
\* field names, with an id and a zIndex of its own; an element with no
\* content; an element that is null; a whole state; a whole state two of
\* whose sprites have the same id, which is not below its nextId; a whole
\* state one of whose sprites is null; an object with no sprites
FormatImportTexts ==
    {<<"garbage">>,
     <<"arr", << <<"obj", << <<"e", StrToken("A")>> >> >>,
                 <<"obj", << <<"e", StrToken("B")>>, <<"x", NumToken(10004)>>,
                             <<"r", NumToken(9000)>>, <<"s", NumToken(200000)>> >> >> >> >>,
     <<"arr", << <<"obj", << <<"id", IdToken(7)>>, <<"emoji", StrToken("A")>>,
                             <<"x", NumToken(1000)>>, <<"rotation", NumToken(3000)>>,
                             <<"scaleX", NumToken(150000)>>, <<"zIndex", NumToken(5)>> >> >>,
                 <<"obj", << <<"emoji", StrToken("B")>>,
                             <<"scale", NumToken(200000)>> >> >> >> >>,
     <<"arr", << <<"obj", << <<"x", NumToken(5000)>> >> >> >> >>,
     <<"arr", << <<"obj", << <<"e", StrToken("A")>> >> >>, NullToken >> >>,
     <<"obj", Serialize([InitialState EXCEPT
                !.sprites = << [id |-> 7, emoji |-> "B", x |-> 0, y |-> 0,
                                rotation |-> 0, scaleX |-> 100000,
                                scaleY |-> 100000, zIndex |-> 1],
                               [id |-> 8, emoji |-> "A", x |-> 2000, y |-> 0,
                                rotation |-> 0, scaleX |-> 100000,
                                scaleY |-> 100000, zIndex |-> 0] >>,
                !.nextId = 9])>>,
     <<"obj", Serialize([InitialState EXCEPT
                !.sprites = << [id |-> 1, emoji |-> "A", x |-> 0, y |-> 0,
                                rotation |-> 0, scaleX |-> 100000,
                                scaleY |-> 100000, zIndex |-> 0],
                               [id |-> 1, emoji |-> "B", x |-> 2000, y |-> 0,
                                rotation |-> 0, scaleX |-> 100000,
                                scaleY |-> 100000, zIndex |-> 1] >>,
                !.nextId = 1])>>,
     <<"obj", Serialize([InitialState EXCEPT !.sprites = <<Null>>])>>,
     <<"obj", << <<"version", NumToken(1)>> >> >>}

InitFormat == InitFrom(MaxFormatOps, FormatStoredTexts)

\* the export button: the text goes into the textarea.  exportJSON reads the
\* content of every sprite: when one of them is null it throws and no text
\* is written
Export ==
    /\ Ready(1)
    /\ \A i \in 1..Len(state.sprites) : state.sprites[i] # Null
    /\ RanWith("export", 1, Manager, GizmoFields, TRUE, Null,
               [text |-> ExportJSONAt(state, FormatUnits)])

\* the import button, on the text an export has left in the textarea
ImportTextarea ==
    /\ Ready(2)
    /\ last.op = "export"
    /\ LET r == ImportJSONAt(Manager, last.event.text, FormatUnits.s)
       IN RanWith("import", 2, r.M, GizmoFields, r.ok, History,
                  [text |-> last.event.text])

\* the import button, on a text typed or pasted
ImportText ==
    /\ Ready(2)
    /\ \E text \in FormatImportTexts :
        LET r == ImportJSONAt(Manager, text, FormatUnits.s)
        IN RanWith("import", 2, r.M, GizmoFields, r.ok, History, [text |-> text])

NextFormat ==
    \/ Load
    \/ Export
    \/ ImportTextarea
    \/ ImportText
    \/ Undo
    \/ Redo

SpecFormat == InitFormat /\ [][NextFormat]_vars

(***************************************************************************)
(* History manager: properties                                             *)
(***************************************************************************)
\* the entries loadFromLocalStorage can leave at the bottom of the undo stack
Baselines ==
    {Serialize(InitialState)} \cup {t[2] : t \in {u \in StoredTexts : u[1] = "doc"}}

\* the baseline entry is gone: the oldest entry has been evicted at least once
Evicted == initialized /\ Len(undoStack) >= 1 /\ undoStack[1] \notin Baselines

\* C1: once loadFromLocalStorage has run, the undo stack holds at least one
\* entry in every reachable state, whatever the stored data was and whatever
\* commits, provisional updates, undos, redos and evictions followed.
C1_UndoStackNeverEmpty == initialized => Len(undoStack) >= 1

\* an undo that removed an entry of a history that had already evicted
C1_Witness == Evicted /\ last.op = "undo" /\ last.result

\* C2: no two consecutive entries of the undo stack are identical.
C2_NoConsecutiveDuplicates ==
    \A i \in 1..(Len(undoStack) - 1) : undoStack[i] # undoStack[i + 1]

\* a redo that pushed an entry back on a history that had already evicted
C2_Witness == Evicted /\ last.op = "redo" /\ last.result /\ Len(undoStack) >= 2

\* what a handler that pushed k snapshots leaves of the stack it found:
\* the oldest entries are dropped, only as many as needed, the rest keep
\* their order below the new entries
KeepsAllButOldest ==
    LET n == Len(undoStack)
        k == last'.pushes
        dropped == Max(0, n + k - UNDO_LIMIT)
    IN k >= 1 =>
        /\ Len(undoStack') = n + k - dropped
        /\ SubSeq(undoStack', 1, n - dropped) = SubSeq(undoStack, dropped + 1, n)

\* C3: the undo stack never holds more than 50 entries; a commit that
\* would make it 51 removes exactly the oldest entry and the other 50 keep
\* their order.
C3_BoundedWithOldestEvicted ==
    /\ [](Len(undoStack) <= UNDO_LIMIT)
    /\ [][KeepsAllButOldest]_vars

\* a full stack right after a commit that evicted
C3_Witness == Evicted /\ Len(undoStack) = UNDO_LIMIT /\ last.pushes = 1

\* C4: undo() on an undo stack of exactly one entry leaves the editor state,
\* the undo stack and the redo stack unchanged, and canUndo() is false there.
C4_UndoFloor ==
    [][(initialized /\ Len(undoStack) = 1 /\ last'.op = "undo") =>
        /\ ~CanUndo(Manager)
        /\ ~last'.result
        /\ state' = state
        /\ undoStack' = undoStack
        /\ redoStack' = redoStack]_vars

\* an undo at the floor, with an entry waiting on the redo stack
C4_Witness ==
    last.op = "undo" /\ ~last.result /\ Len(undoStack) = 1 /\ Len(redoStack) >= 1

\* C5: a commit whose serialized editor state equals the top of the undo
\* stack is a no-op: the undo stack does not grow, the redo stack is not
\* cleared and the storage item is not written.
C5_DuplicateCommitIsNoOp ==
    [][(last'.commits = 1 /\ Len(undoStack) >= 1 /\ Serialize(state') = Top(undoStack)) =>
        /\ undoStack' = undoStack
        /\ redoStack' = redoStack
        /\ storage' = storage]_vars

\* a commit that was dropped while the redo stack held an entry and the
\* storage item held another snapshot than the top
C5_Witness ==
    /\ last.commits = 1 /\ last.pushes = 0
    /\ Len(redoStack) >= 1
    /\ Serialize(state) = Top(undoStack)
    /\ storage # <<"doc", Top(undoStack)>>

\* C6: a commit whose serialized state differs from the top of the undo
\* stack makes that serialization the new top and empties the redo stack;
\* canRedo() then stays false until the next undo.
C6_NewCommitClearsRedo ==
    [][/\ (last'.commits = 1 /\ Len(undoStack) >= 1 /\ Serialize(state') # Top(undoStack)) =>
            /\ Top(undoStack') = Serialize(state')
            /\ redoStack' = <<>>
       /\ last'.pushes >= 1 =>
            /\ Top(undoStack') = Serialize(state')
            /\ Len(redoStack') = 0
       /\ (initialized /\ ~CanRedo(Manager) /\ last'.op # "undo") => Len(redoStack') = 0]_vars

\* a commit that pushed while the redo stack held an entry
C6_Witness == last.pushes >= 1 /\ last.hadRedo /\ Len(redoStack) = 0

\* C7: undo() on an undo stack of at least two entries removes the top
\* entry, pushes it on the redo stack and sets the editor state to the
\* deserialization of the new top.
C7_UndoMovesTop ==
    [][(Len(undoStack) >= 2 /\ last'.op = "undo") =>
        /\ last'.result
        /\ undoStack' = Pop(undoStack)
        /\ redoStack' = Append(redoStack, Top(undoStack))
        /\ state' = Deserialize(Top(undoStack'))]_vars

\* an undo that took an entry off a stack of three or more
C7_Witness ==
    /\ last.op = "undo"
    /\ last.result
    /\ Len(redoStack) >= 1
    /\ Len(undoStack) >= 2

\* redo() is a no-op on an empty redo stack and otherwise moves the top redo
\* entry to the undo stack and restores the state from it
RedoMovesTop ==
    /\ (last'.op = "redo" /\ Len(redoStack) = 0) =>
            (state' = state /\ undoStack' = undoStack /\ redoStack' = redoStack)
    /\ (last'.op = "redo" /\ Len(redoStack) > 0) =>
            /\ undoStack' = Append(undoStack, Top(redoStack))
            /\ redoStack' = Pop(redoStack)
            /\ state' = Deserialize(Top(redoStack))

\* C8 as stated: redo() is a no-op on an empty redo stack and otherwise moves
\* the top redo entry to the undo stack and restores the state from it, so
\* undo() immediately followed by redo() restores the editor state, the undo
\* stack and the redo stack exactly as they were before the undo.
C8_AsStated ==
    [][/\ RedoMovesTop
       /\ (last.op = "undo" /\ last'.op = "redo") =>
            /\ state' = last.before.state
            /\ undoStack' = last.before.undoStack
            /\ redoStack' = last.before.redoStack]_vars

\* C8, amended: redo() is a no-op on an empty redo stack and otherwise moves
\* the top redo entry to the undo stack and restores the state from it, so an
\* undo() that removed an entry, immediately followed by redo(), restores
\* the undo stack and the redo stack exactly as they were before the undo and
\* sets the editor state to the deserialization of the top undo entry: the
\* state before the undo when that state was the deserialization of the top
\* entry, that is, when no provisional update was pending.
C8_UndoRedoRoundTrip ==
    [][/\ RedoMovesTop
       /\ (last.op = "undo" /\ last.result /\ last'.op = "redo") =>
            /\ undoStack' = last.before.undoStack
            /\ redoStack' = last.before.redoStack
            /\ state' = Deserialize(Top(undoStack'))
            /\ (last.before.state = Deserialize(Top(last.before.undoStack))
                    => state' = last.before.state)]_vars

\* a redo right after an undo that removed an entry, in the middle of a
\* drag: the provisional values of before the undo are not back
C8_Witness ==
    /\ last.op = "redo" /\ last.result
    /\ last.before # Null
    /\ Len(last.before.undoStack) >= 2
    /\ undoStack = last.before.undoStack
    /\ state # last.before.state

(***************************************************************************)
(* Gizmo: properties                                                       *)
(***************************************************************************)
\* C9: a pointer move in an active mode (Dragging, Rotating, a scaling
\* corner) changes neither the undo stack nor the redo stack, however many
\* moves a session has.
C9_MoveLeavesHistory ==
    [][(last'.op = "pointerMove" /\ mode \in ActiveModes) =>
        (undoStack' = undoStack /\ redoStack' = redoStack /\ last'.commits = 0)]_vars

\* a second move in a row that left provisional values in the editor state
C9_Witness ==
    /\ last.op = "pointerMove"
    /\ mode \in ActiveModes
    /\ opsLeft <= MaxOps - 3
    /\ Serialize(state) # Top(undoStack)

\* C10: after a pointer-up received in an active mode the mode is Idle, the
\* drag-start position, the drag-start sprite snapshot and the local pivot
\* are cleared, the release has added at most one undo entry, and the top of
\* the undo stack is the serialization of the editor state, which holds the
\* final provisional values.
C10_ReleaseCommits ==
    [][(last'.op = "pointerUp" /\ mode \in ActiveModes) =>
        /\ mode' = "None"
        /\ dragStartPos' = Null
        /\ dragStartSpriteState' = Null
        /\ dragStartLocalPos' = Null
        /\ last'.pushes <= 1
        /\ Len(undoStack') <= Len(undoStack) + 1
        /\ Pop(undoStack') = undoStack \/ undoStack' = undoStack
        /\ state' = state
        /\ Top(undoStack') = Serialize(state')]_vars

\* a release that committed the values a scaling session left
C10_Witness ==
    /\ last.op = "pointerUp" /\ last.pushes = 1
    /\ mode = "None"
    /\ \E i \in 1..Len(state.sprites) : state.sprites[i].scaleX # FP

\* C11: a pointercancel has exactly the effect a pointerup has in the same
\* state, whatever the mode; with an edit in progress it leaves the document
\* with the last provisional values and commits it (the top of the undo stack
\* is then the serialization of that document), never putting the drag-start
\* values back; and no step takes the gizmo from an active mode to Idle
\* without committing.
C11_CancelCommitsLikeRelease ==
    [][/\ last'.op = "pointerCancel" =>
            LET r == OnPointerUp(Manager, GizmoFields, last'.event.pointerId)
            IN /\ state' = r.M.state
               /\ undoStack' = r.M.undoStack
               /\ redoStack' = r.M.redoStack
               /\ storage' = r.M.storage
               /\ mode' = r.G.mode
               /\ dragStartPos' = r.G.dragStartPos
               /\ dragStartSpriteState' = r.G.dragStartSpriteState
               /\ dragStartLocalPos' = r.G.dragStartLocalPos
               /\ captured' = r.G.captured
               /\ last'.commits = r.M.commits
               /\ mode \in ActiveModes => state' = state
       /\ (mode \in ActiveModes /\ mode' = "None") =>
            /\ last'.op \in {"pointerUp", "pointerCancel"}
            /\ last'.commits = 1
            /\ Top(undoStack') = Serialize(state')
      ]_vars

\* a cancelled session that had changed the document: the change is kept and
\* pushed
C11_Witness ==
    /\ last.op = "pointerCancel"
    /\ last.pushes = 1
    /\ mode = "None"
    /\ Top(undoStack) = Serialize(state)

\* the handle of the selected sprite that holds point p: "Rotating", the mode
\* of a corner handle, or "None" (also when no sprite is selected)
HandleAt(p) ==
    LET sel == SelectedIndex(state)
        handles == GetHandles(state.sprites[sel])
        corner == CornerHit(handles, p)
    IN IF sel = 0 THEN "None"
       ELSE IF IsPointInCircle(p, handles[5], ROTATION_HANDLE_RADIUS) THEN "Rotating"
       ELSE IF corner # 0 THEN handles[corner].mode
       ELSE "None"

\* C12: a pointer-down that hits no handle, with or without a selection: when
\* the hit test returns a sprite, that sprite is the selection afterwards (a
\* change of selection for another sprite, none for the selected one) and the
\* mode is Dragging; when it returns nothing, the selection is none and the
\* mode is Idle afterwards.
C12_AsStated ==
    [][(last'.op = "pointerDown" /\ HandleAt(last'.event.pos) = "None") =>
          LET hitId == HitTest(state.sprites, last'.event.pos.x, last'.event.pos.y)
          IN IF hitId # NullId
             THEN state'.selectedId = hitId /\ mode' = "Dragging"
             ELSE state'.selectedId = NullId /\ mode' = "None"
      ]_vars

\* C13: a pointer-down received while a session is active leaves the session
\* as it is: the mode, the drag-start pointer position, the drag-start copy
\* of the sprite and the local pivot are unchanged.
C13_AsStated ==
    [][(last'.op = "pointerDown" /\ mode \in ActiveModes) =>
          /\ mode' = mode
          /\ dragStartPos' = dragStartPos
          /\ dragStartSpriteState' = dragStartSpriteState
          /\ dragStartLocalPos' = dragStartLocalPos
      ]_vars

\* the hit area of the handle of sprite sp that starts mode m
HandleOf(sp, m) ==
    LET handles == GetHandles(sp)
    IN handles[CHOOSE i \in 1..5 : handles[i].mode = m]

InRotationHandle(sp, p) ==
    IsPointInCircle(p, HandleOf(sp, "Rotating"), ROTATION_HANDLE_RADIUS)

InCornerHandle(sp, p, m) == IsPointInRect(p, HandleOf(sp, m))

\* the mode the claimed order gives a pointer-down at p with sp selected
ModeByPrecedence(sp, p) ==
    CASE InRotationHandle(sp, p) -> "Rotating"
      [] InCornerHandle(sp, p, "ScalingTopLeft") -> "ScalingTopLeft"
      [] InCornerHandle(sp, p, "ScalingTopRight") -> "ScalingTopRight"
      [] InCornerHandle(sp, p, "ScalingBottomLeft") -> "ScalingBottomLeft"
      [] InCornerHandle(sp, p, "ScalingBottomRight") -> "ScalingBottomRight"
      [] OTHER -> "None"

C15_AsStated ==
    /\ [](captured # {} <=> mode \in ActiveModes)
    /\ [][/\ (last'.op = "pointerDown" /\ mode = "None" /\ mode' \in ActiveModes) =>
               captured' = captured \cup {last'.event.pointerId}
          /\ (last'.op = "pointerDown" /\ mode' = "None") => captured' = captured
          /\ (last'.op \in {"pointerUp", "pointerCancel"} /\ mode' = "None") =>
               captured' = {}
         ]_vars

\* C16: whatever other handlers (undo, redo, delete, duplicate, nudge,
\* property edits) ran since the pointer-down, a pointer-move of a session
\* changes no sprite but the one whose copy the pointer-down took.
C16_AsStated ==
    [][(last'.op = "pointerMove" /\ mode \in ActiveModes /\ dragStartSpriteState # Null) =>
          /\ Len(state'.sprites) = Len(state.sprites)
          /\ \A i \in 1..Len(state.sprites) :
                state'.sprites[i] # state.sprites[i] =>
                    state.sprites[i].id = dragStartSpriteState.id
      ]_vars

\* C17: a drag computes the position from the drag-start copy, so that it
\* never accumulates.  A pointer-down that starts Dragging takes the pointer
\* position and a copy of the sprite it leaves selected; a pointer-move in
\* Dragging mode keeps both, the selection and the mode; and after it the
\* selected sprite, being the one the pointer-down took, is at the position
\* it had at pointer-down plus (pointer position - pointer position at
\* pointer-down), however many moves came before.
C17_DragFromSnapshot ==
    [][/\ (last'.op = "pointerDown" /\ mode = "None" /\ mode' = "Dragging") =>
            /\ dragStartPos' = last'.event.pos
            /\ SelectedIndex(state') # 0
            /\ dragStartSpriteState' = state'.sprites[SelectedIndex(state')]
       /\ (last'.op = "pointerMove" /\ mode = "Dragging" /\ dragStartPos # Null
                /\ dragStartSpriteState # Null) =>
            /\ mode' = mode
            /\ dragStartPos' = dragStartPos
            /\ dragStartSpriteState' = dragStartSpriteState
            /\ state'.selectedId = state.selectedId
            /\ \A i \in 1..Len(state'.sprites) :
                  (/\ state'.sprites[i].id = state'.selectedId
                   /\ state'.sprites[i].id = dragStartSpriteState.id) =>
                      /\ state'.sprites[i].x =
                            dragStartSpriteState.x + (last'.event.pos.x - dragStartPos.x)
                      /\ state'.sprites[i].y =
                            dragStartSpriteState.y + (last'.event.pos.y - dragStartPos.y)
      ]_vars

\* a second move in a row of a drag: the sprite is away from where a first
\* move had put it, at its start plus the displacement of the pointer
C17_Witness ==
    /\ last.op = "pointerMove"
    /\ mode = "Dragging"
    /\ opsLeft <= MaxOps - 3
    /\ SelectedIndex(state) # 0
    /\ dragStartSpriteState # Null
    /\ LET selected == state.sprites[SelectedIndex(state)]
       IN /\ selected.id = dragStartSpriteState.id
          /\ selected.x = dragStartSpriteState.x + (last.event.pos.x - dragStartPos.x)
          /\ selected.y = dragStartSpriteState.y + (last.event.pos.y - dragStartPos.y)
          /\ selected.x # dragStartSpriteState.x

\* C18: a pointer-move received in Idle mode changes neither the document
\* (sprites, selection, view options), nor the undo and redo stacks, nor the
\* stored text, and leaves the gizmo Idle with no drag-start data.
C18_IdleMoveChangesNothing ==
    [][(last'.op = "pointerMove" /\ mode = "None") =>
          /\ state' = state
          /\ undoStack' = undoStack
          /\ redoStack' = redoStack
          /\ storage' = storage
          /\ mode' = "None"
          /\ dragStartPos' = dragStartPos
          /\ dragStartSpriteState' = dragStartSpriteState
          /\ dragStartLocalPos' = dragStartLocalPos
          /\ captured' = captured
          /\ last'.commits = 0
      ]_vars

\* a pointer-move in Idle mode, with a sprite that is not the selected one on
\* the canvas and a history that has grown
C18_Witness ==
    /\ last.op = "pointerMove"
    /\ mode = "None"
    /\ Len(state.sprites) > 1
    /\ Len(undoStack) > 1
    /\ \E i \in 1..Len(state.sprites) : state.sprites[i].id # state.selectedId

(***************************************************************************)
(* Layers: properties                                                      *)
(***************************************************************************)
SpriteIdsOf(sprites) == {sprites[i].id : i \in 1..Len(sprites)}

\* the zIndex values of N sprites are 0..N-1, no two sprites sharing one
DenseZ(sprites) ==
    /\ {sprites[i].zIndex : i \in 1..Len(sprites)} = 0..(Len(sprites) - 1)
    /\ \A i, j \in 1..Len(sprites) : sprites[i].zIndex = sprites[j].zIndex => i = j

\* sprite a is drawn below sprite b
Below(sprites, a, b) ==
    \E i, j \in 1..Len(sprites) :
        /\ sprites[i].id = a
        /\ sprites[j].id = b
        /\ sprites[i].zIndex < sprites[j].zIndex

\* a step keeps the order in which any two sprites other than `moved` are
\* drawn
KeepsOrderOfOthers(moved) ==
    \A a, b \in SpriteIdsOf(state.sprites) \ {moved} :
        Below(state.sprites, a, b) <=> Below(state'.sprites, a, b)

LayerCalls == {"moveLayerToFront", "moveLayerUp", "moveLayerToBack", "moveLayerDown"}

\* C19: in every state reached through addSprite, deleteSprite, clearAll, the
\* four layer moves, importJSON, undo and redo, the zIndex values of the N
\* sprites are exactly 0..N-1 with no duplicates; and a layer move keeps the
\* sprites and the order in which any two sprites other than the one it was
\* called for are drawn.
C19_DenseZOrder ==
    /\ [](DenseZ(state.sprites))
    /\ [][last'.op \in LayerCalls =>
             /\ SpriteIdsOf(state'.sprites) = SpriteIdsOf(state.sprites)
             /\ KeepsOrderOfOthers(last'.event.id)
         ]_vars

\* a layer move among three sprites or more that changed the order
C19_Witness ==
    /\ last.op \in LayerCalls
    /\ last.pushes = 1
    /\ Len(state.sprites) >= 3
    /\ DenseZ(state.sprites)

\* C20: deleteSprite(id) of one of N sprites leaves the N-1 others, with
\* zIndex values exactly 0..N-2 and drawn in the order they were drawn in
\* before; the selection becomes none when the deleted sprite was the selected
\* one and is kept otherwise.
C20_DeleteKeepsOrder ==
    [][(last'.op = "deleteSprite" /\ last'.event.id \in SpriteIdsOf(state.sprites)) =>
          /\ SpriteIdsOf(state'.sprites) = SpriteIdsOf(state.sprites) \ {last'.event.id}
          /\ Len(state'.sprites) = Len(state.sprites) - 1
          /\ DenseZ(state'.sprites)
          /\ KeepsOrderOfOthers(last'.event.id)
          /\ state'.selectedId =
                IF state.selectedId = last'.event.id THEN NullId ELSE state.selectedId
      ]_vars

\* a sprite that was not the selected one has been deleted: two sprites or
\* more remain and one of them is still selected
C20_Witness ==
    /\ last.op = "deleteSprite"
    /\ last.pushes = 1
    /\ Len(state.sprites) >= 2
    /\ state.selectedId \in SpriteIdsOf(state.sprites)

(***************************************************************************)
(* Renderer: properties                                                    *)
(***************************************************************************)
\* the sprites of the collection whose bounds hold point p
Holding(sprites, p) ==
    {i \in 1..Len(sprites) : IsPointInSprite(sprites[i], p.x, p.y)}

\* C21: for every point, hitTest gives the id of the sprite with the highest
\* zIndex among the sprites whose bounds hold the point, wherever that sprite
\* stands in the collection, and none when no sprite holds it.
C21_HitTestTopmost ==
    \A p \in Points :
        LET hitId == HitTest(state.sprites, p.x, p.y)
            holding == Holding(state.sprites, p)
        IN IF holding = {} THEN hitId = NullId
           ELSE \E i \in holding :
                    /\ state.sprites[i].id = hitId
                    /\ \A j \in holding : state.sprites[j].zIndex <= state.sprites[i].zIndex

\* two sprites hold a point, the one that comes first in the collection being
\* the higher, and hitTest gives the higher one; another point is on no sprite
C21_Witness ==
    /\ \E p \in Points :
          \E i, j \in Holding(state.sprites, p) :
             /\ i < j
             /\ state.sprites[i].zIndex > state.sprites[j].zIndex
             /\ HitTest(state.sprites, p.x, p.y) = state.sprites[i].id
    /\ \E p \in Points : HitTest(state.sprites, p.x, p.y) = NullId

(***************************************************************************)
(* Interchange format: properties                                          *)
(***************************************************************************)
\* the precision of the format, in steps: 0.01 pixel, 0.1 degree, 0.0001
XStep == FormatUnits.x \div 100
RStep == FormatUnits.r \div 10
SStep == FormatUnits.s \div 10000
\* v lies less than half a step from d: it is written as d however a half
\* is rounded
Near(v, d, step) == 2 * Abs(v - d) < step
\* the sprites of the state from back to front, as an export walks them
BackToFront(st) == [r \in 1..Len(st.sprites) |-> st.sprites[SortedByZ(st.sprites)[r]]]
\* the members of the r-th object of a text
ObjectOf(text, r) == text[2][r][2]
ExportDone == last.op = "export"

\* C22: in every exported text, an object has no x, y or r whose value
\* rounds to 0 and no s, sx or sy whose value rounds to 1, and the object of
\* a sprite at the origin, unrotated, with both scales 1 is the single
\* member e.
C22_DefaultsOmitted ==
    ExportDone =>
        /\ Len(last.event.text[2]) = Len(state.sprites)
        /\ \A r \in 1..Len(state.sprites) :
            LET sprite == BackToFront(state)[r]
                obj == ObjectOf(last.event.text, r)
                one == FormatUnits.s
            IN /\ Near(sprite.x, 0, XStep) => ~HasMember(obj, "x")
               /\ Near(sprite.y, 0, XStep) => ~HasMember(obj, "y")
               /\ Near(sprite.rotation, 0, RStep) => ~HasMember(obj, "r")
               /\ Near(sprite.scaleX, one, SStep) => ~HasMember(obj, "sx")
               /\ Near(sprite.scaleY, one, SStep) => ~HasMember(obj, "sy")
               /\ Near(sprite.scaleX, one, SStep) /\ Near(sprite.scaleY, one, SStep)
                    => ~HasMember(obj, "s")
               /\ ( /\ sprite.x = 0 /\ sprite.y = 0 /\ sprite.rotation = 0
                    /\ sprite.scaleX = one /\ sprite.scaleY = one
                    /\ sprite.emoji # Undefined )
                    => obj = << <<"e", StrToken(sprite.emoji)>> >>

\* an export has written a sprite with every default, and a sprite none of
\* whose values is a default while all of them round to one
C22_Witness ==
    /\ ExportDone
    /\ \E r \in 1..Len(state.sprites) :
        LET sprite == BackToFront(state)[r]
        IN /\ sprite.x = 0 /\ sprite.y = 0 /\ sprite.rotation = 0
           /\ sprite.scaleX = FormatUnits.s /\ sprite.scaleY = FormatUnits.s
           /\ Len(ObjectOf(last.event.text, r)) = 1
    /\ \E r \in 1..Len(state.sprites) :
        LET sprite == BackToFront(state)[r]
        IN /\ sprite.x # 0 /\ sprite.y # 0 /\ sprite.rotation # 0
           /\ sprite.scaleX # FormatUnits.s /\ sprite.scaleY # FormatUnits.s
           /\ Len(ObjectOf(last.event.text, r)) = 1

\* C23: in every exported text the scale of a sprite has one form.  With
\* the two scales rounded to 4 places: when they are equal and not 1 the
\* object has s, with that value, and neither sx nor sy; otherwise it has
\* no s, it has sx exactly when the rounded scaleX is not 1 and sy exactly
\* when the rounded scaleY is not 1, each with its rounded value.
C23_OneScaleForm ==
    ExportDone =>
        \A r \in 1..Len(state.sprites) :
            LET sprite == BackToFront(state)[r]
                obj == ObjectOf(last.event.text, r)
                one == FormatUnits.s
                scaleX == RoundTo(sprite.scaleX, one, 10000)
                scaleY == RoundTo(sprite.scaleY, one, 10000)
            IN /\ ~(HasMember(obj, "s") /\ (HasMember(obj, "sx") \/ HasMember(obj, "sy")))
               /\ scaleX % SStep = 0 /\ 2 * Abs(sprite.scaleX - scaleX) <= SStep
               /\ scaleY % SStep = 0 /\ 2 * Abs(sprite.scaleY - scaleY) <= SStep
               /\ IF scaleX = scaleY /\ scaleX # one
                  THEN Member(obj, "s") = NumToken(scaleX)
                  ELSE /\ ~HasMember(obj, "s")
                       /\ Member(obj, "sx")
                            = (IF scaleX # one THEN NumToken(scaleX) ELSE <<"undefined">>)
                       /\ Member(obj, "sy")
                            = (IF scaleY # one THEN NumToken(scaleY) ELSE <<"undefined">>)

\* an export has written s for a sprite whose scales differ and round to
\* the same value, sx alone for a sprite, and sy alone for a sprite
C23_Witness ==
    /\ ExportDone
    /\ \E r \in 1..Len(state.sprites) :
        /\ BackToFront(state)[r].scaleX # BackToFront(state)[r].scaleY
        /\ HasMember(ObjectOf(last.event.text, r), "s")
    /\ \E r \in 1..Len(state.sprites) :
        /\ HasMember(ObjectOf(last.event.text, r), "sx")
        /\ ~HasMember(ObjectOf(last.event.text, r), "sy")
    /\ \E r \in 1..Len(state.sprites) :
        /\ HasMember(ObjectOf(last.event.text, r), "sy")
        /\ ~HasMember(ObjectOf(last.event.text, r), "sx")

\* C24: an import of the text an export has just written succeeds and
\* leaves as many sprites, in the collection from back to front as the
\* export walked them, each with the content of its original, zIndex its
\* place, and position, rotation and scales the original's rounded to 2, 1
\* and 4 places; an export of the result is the same text.
C24_RoundTrip ==
    [][(ExportDone /\ last'.op = "import" /\ last'.event.text = last.event.text) =>
        /\ last'.result
        /\ Len(state'.sprites) = Len(state.sprites)
        /\ \A r \in 1..Len(state.sprites) :
            LET old == BackToFront(state)[r]
                new == state'.sprites[r]
            IN /\ new.emoji = old.emoji
               /\ new.zIndex = r - 1
               /\ new.x = RoundTo(old.x, FormatUnits.x, 100)
               /\ new.y = RoundTo(old.y, FormatUnits.x, 100)
               /\ new.rotation = RoundTo(old.rotation, FormatUnits.r, 10)
               /\ new.scaleX = RoundTo(old.scaleX, FormatUnits.s, 10000)
               /\ new.scaleY = RoundTo(old.scaleY, FormatUnits.s, 10000)
               /\ new.x % XStep = 0 /\ 2 * Abs(new.x - old.x) <= XStep
               /\ new.y % XStep = 0 /\ 2 * Abs(new.y - old.y) <= XStep
               /\ new.rotation % RStep = 0 /\ 2 * Abs(new.rotation - old.rotation) <= RStep
        /\ ExportJSONAt(state', FormatUnits) = last.event.text]_vars

\* the text of an export has been imported: the collection exported was
\* not in layer order and held a position, a rotation and a scale off the
\* precision of the format
C24_Witness ==
    /\ last.op = "import" /\ last.result
    /\ LET old == last.before.state.sprites
       IN /\ \A i \in 1..Len(old) : old[i] # Null
          /\ last.event.text = ExportJSONAt(last.before.state, FormatUnits)
          /\ \E i \in 1..Len(old) : old[i].zIndex # i - 1
          /\ \E i \in 1..Len(old) :
                /\ old[i].x % XStep # 0
                /\ old[i].rotation % RStep # 0
                /\ old[i].scaleX % SStep # 0

\* C25: after every import that returns true, the sprites carry the ids
\* the editor generates next, in the order of the input, whatever ids the
\* input gave, and each sprite's zIndex is its place in the input.
C25_AsStated ==
    [][(last'.op = "import" /\ last'.result) =>
        \A i \in 1..Len(state'.sprites) :
            /\ state'.sprites[i].id = state.nextId + (i - 1)
            /\ state'.sprites[i].zIndex = i - 1]_vars

\* C26: an import that returns false leaves the state, the undo stack, the
\* redo stack and the storage item as they were before the call.
C26_AsStated ==
    [][(last'.op = "import" /\ ~last'.result) =>
        /\ state' = state
        /\ undoStack' = undoStack
        /\ redoStack' = redoStack
        /\ storage' = storage]_vars

\* an element of an imported array with no content: not an object, or an
\* object with neither e nor emoji
NoContent(el) ==
    \/ el[1] # "obj"
    \/ Member(el[2], "e")[1] # "str" /\ Member(el[2], "emoji")[1] # "str"
\* a text that is no JSON, an object with no sprites array, or an array
\* with an element of no content
Invalid(text) ==
    \/ text[1] = "garbage"
    \/ text[1] = "obj" /\ ~HasSpritesArray(text[2])
    \/ text[1] = "arr" /\ \E i \in 1..Len(text[2]) : NoContent(text[2][i])

\* C27: an import of a text that is no JSON, of an object with no sprites
\* array, or of an array with an element that has neither e nor emoji
\* returns false.
C27_AsStated ==
    [][(last'.op = "import" /\ Invalid(last'.event.text)) => ~last'.result]_vars

(***************************************************************************)
(* Storage failure: properties                                             *)
(***************************************************************************)
\* the manager with a store that takes the write
Writable(M) == [M EXCEPT !.storage = <<"absent">>]
InMemory(M) == [state |-> M.state, undoStack |-> M.undoStack, redoStack |-> M.redoStack]

\* C28: while every write to the store fails, a handler that commits
\* leaves the snapshot of the state on top of the undo stack, a push
\* lengthens the undo stack and empties the redo stack, the store stays as
\* it is, and an undo or a redo leaves the state and the two stacks that it
\* leaves when the store takes the write.
C28_WriteFailureHarmless ==
    [][storage = <<"full">> =>
        /\ storage' = <<"full">>
        /\ last'.commits > 0 => Top(undoStack') = Serialize(state')
        /\ last'.pushes > 0 =>
                /\ redoStack' = <<>>
                /\ Len(undoStack') = Len(undoStack) + last'.pushes
        /\ last'.op = "undo" => History' = InMemory(UndoOp(Writable(Manager)))
        /\ last'.op = "redo" => History' = InMemory(RedoOp(Writable(Manager)))]_vars

\* with a store that takes no write, a commit has been pushed over a redo
\* stack that held an entry, after an undo that restored a state
C28_Witness ==
    /\ storage = <<"full">>
    /\ last.pushes > 0 /\ last.hadRedo
    /\ redoStack = <<>>
    /\ Len(undoStack) >= 2

(***************************************************************************)
(* Scaling: properties                                                     *)
(***************************************************************************)
\* a pointer-move of a scaling session with a selected sprite
ScalingMove ==
    /\ last'.op = "pointerMove"
    /\ mode \in ScalingModes
    /\ SelectedIndex(state) # 0
\* the selected sprite
Selected(st) == st.sprites[SelectedIndex(st)]

\* C29: after every pointer-move of a scaling session, with the modifier
\* or without, scaleX and scaleY of the selected sprite are 0.1 or more.
C29_ScaleFloor ==
    [][ScalingMove =>
        /\ Selected(state').scaleX >= FP \div 10
        /\ Selected(state').scaleY >= FP \div 10]_vars

\* a scaling session started on a sprite with a negative scale and a scale
\* below 0.1, and a move has left both scales at 0.1 or more, one of them
\* above
C29_Witness ==
    /\ last.op = "pointerMove"
    /\ mode \in ScalingModes
    /\ dragStartSpriteState.scaleX < 0
    /\ dragStartSpriteState.scaleY < FP \div 10
    /\ SelectedIndex(state) # 0
    /\ Selected(state).scaleX >= FP \div 10
    /\ Selected(state).scaleY > FP \div 10

\* a pointer-move of a scaling session without the modifier
UniformMove == ScalingMove /\ ~last'.event.shiftKey
NoFloor ==
    /\ Selected(state').scaleX > FP \div 10
    /\ Selected(state').scaleY > FP \div 10
\* the pointer of the move in the local frame of the sprite: under the
\* scales of the drag start, and under the scales the move has left
LocalAtStartScale ==
    LET sp == Selected(state')
    IN WorldToLocalWithScale(sp.x, sp.y, sp.rotation,
                             OrOne(dragStartSpriteState.scaleX),
                             OrOne(dragStartSpriteState.scaleY),
                             last'.event.pos.x, last'.event.pos.y)
LocalAfter == WorldToLocal(Selected(state'), last'.event.pos.x, last'.event.pos.y)
\* equal up to the resolution of the fixed point: a twentieth of the
\* larger, and a hundredth of a unit
Close(a, b) == 20 * Abs(a - b) <= Max(Abs(a), Abs(b)) + 20
\* the sprite of the example and its grab
ExampleGrab ==
    /\ dragStartSpriteState.x = 0 /\ dragStartSpriteState.y = 0
    /\ dragStartSpriteState.rotation = 0
    /\ dragStartSpriteState.scaleX = FP /\ dragStartSpriteState.scaleY = FP
    /\ dragStartLocalPos = [x |-> 10 * FP, y |-> 10 * FP]
Example ==
    (UniformMove /\ ExampleGrab /\ last'.event.pos = [x |-> 20, y |-> 20]) =>
        /\ Selected(state').scaleX = 2 * FP
        /\ Selected(state').scaleY = 2 * FP
\* the pointer is on the ray from the centre through the grabbed point
OnRay ==
    /\ LocalAtStartScale.x * dragStartLocalPos.y = LocalAtStartScale.y * dragStartLocalPos.x
    /\ LocalAtStartScale.x * dragStartLocalPos.x
         + LocalAtStartScale.y * dragStartLocalPos.y > 0
\* the grabbed point is more than 0.001 from the centre
GrabOffCentre == Hypot(dragStartLocalPos.x, dragStartLocalPos.y) * 1000 > FP

\* C30 as stated: the example, and after every move without the modifier
\* that the floor does not touch, the pointer's local coordinates under the
\* new scales are those recorded at the pointer-down.
C30_AsStated ==
    [][/\ Example
       /\ (UniformMove /\ NoFloor) =>
            /\ Close(LocalAfter.x, dragStartLocalPos.x)
            /\ Close(LocalAfter.y, dragStartLocalPos.y)]_vars

\* C30: the example, and after every move without the modifier that the
\* floor does not touch, of a grab off the centre, the pointer's local
\* coordinates under the new scales are as far from the centre as those
\* recorded at the pointer-down, and they are the recorded ones when the
\* pointer is on the ray from the centre through the grabbed point.
C30_PinsAlongRay ==
    [][/\ Example
       /\ (UniformMove /\ NoFloor /\ GrabOffCentre) =>
            /\ Close(Hypot(LocalAfter.x, LocalAfter.y),
                     Hypot(dragStartLocalPos.x, dragStartLocalPos.y))
            /\ OnRay =>
                    /\ Close(LocalAfter.x, dragStartLocalPos.x)
                    /\ Close(LocalAfter.y, dragStartLocalPos.y)]_vars

\* the move of the example has been made: the sprite of scale 1 grabbed at
\* (10, 10), the pointer at (20, 20), both scales 2
C30_Witness ==
    /\ last.op = "pointerMove"
    /\ mode \in ScalingModes
    /\ ~last.event.shiftKey
    /\ ExampleGrab
    /\ last.event.pos = [x |-> 20, y |-> 20]
    /\ SelectedIndex(state) # 0
    /\ Selected(state).scaleX = 2 * FP
    /\ Selected(state).scaleY = 2 * FP

\* the selected sprite as the pointer-down of the session recorded it, and
\* the editor with that sprite in place of the live one
AtDragStart ==
    [Manager EXCEPT !.state.sprites[SelectedIndex(state)] = dragStartSpriteState]
\* the scales the move's event gives when it is the first of its session
FirstMoveScales ==
    LET sp == Selected(OnPointerMove(AtDragStart, GizmoFields, last'.event.pos,
                                     last'.event.shiftKey).state)
    IN <<sp.scaleX, sp.scaleY>>

\* C31: the scales a pointer-move of a scaling session writes are
\* determined by the drag-start scales, the drag-start local pivot, the
\* pointer position and the modifier, never by the live scales: whatever
\* moves came before it in the session, the move writes the scales it
\* writes as the first move of the session.
C31_LiveScaleUnread ==
    [][ScalingMove =>
        <<Selected(state').scaleX, Selected(state').scaleY>> = FirstMoveScales]_vars

\* the second move of a scaling session, away from the grabbed point, has
\* left scales other than those of the drag start
C31_Witness ==
    /\ last.op = "pointerMove"
    /\ mode \in ScalingModes
    /\ opsLeft = MaxScaleOps - 3
    /\ last.event.pos # dragStartPos
    /\ SelectedIndex(state) # 0
    /\ Selected(state).scaleX # dragStartSpriteState.scaleX

\* a pointer-move of a scaling session with the modifier
StretchMove == ScalingMove /\ last'.event.shiftKey
\* Math.abs(v) is within 0.001 of zero
NearZero(v) == Abs(v) * 1000 <= FP
\* the scale the modifier's rule gives an axis: the drag-start scale times
\* the ratio of the pointer's local coordinate to the recorded one
Stretched(startScale, current, recorded) ==
    Max(FP \div 10, Abs(RoundDiv(OrOne(startScale) * current, recorded)))

RotatingMove ==
    /\ last'.op = "pointerMove"
    /\ mode = "Rotating"
    /\ SelectedIndex(state) # 0
\* the pointer of the move from the centre of the selected sprite
FromCentre ==
    [x |-> last'.event.pos.x - Selected(state).x,
     y |-> last'.event.pos.y - Selected(state).y]
\* the direction in which a turn of r degrees clockwise puts the upward
\* direction, with y growing downwards
Upward(r) == [x |-> SinDeg(r), y |-> -CosDeg(r)]
\* the direction u points at the point d, up to two degrees
PointsAt(u, d) ==
    /\ 30 * Abs(u.x * d.y - u.y * d.x) <= TRIG * (Abs(d.x) + Abs(d.y))
    /\ u.x * d.x + u.y * d.y > 0

\* C33: the rotation a pointer-move of a rotating session writes is the
\* clockwise angle of the pointer around the sprite's centre from straight
\* up: 0 above the centre, 90 to the right, 180 below, 270 (or a value 360
\* apart) to the left, and everywhere off the centre the angle whose turn
\* of the upward direction points at the pointer, wherever the session
\* began.
C33_ClockwiseFromUp ==
    [][RotatingMove =>
        LET d == FromCentre
            r == Selected(state').rotation
        IN /\ (d.x = 0 /\ d.y < 0) => r = 0
           /\ (d.x > 0 /\ d.y = 0) => r = 90
           /\ (d.x = 0 /\ d.y > 0) => r = 180
           /\ (d.x < 0 /\ d.y = 0) => (r - 270) % 360 = 0
           /\ (d.x # 0 \/ d.y # 0) => PointsAt(Upward(r), d)]_vars

\* a rotating session begun on the handle to the right of the centre has
\* moved the pointer straight below the centre of the sprite, which is
\* turned by a half
C33_Witness ==
    /\ last.op = "pointerMove"
    /\ mode = "Rotating"
    /\ dragStartPos = [x |-> 45, y |-> 10]
    /\ last.event.pos = [x |-> 10, y |-> 30]
    /\ SelectedIndex(state) # 0
    /\ Selected(state).rotation = 180

(***************************************************************************)
(* Pointer-move: what it leaves alone                                      *)
(***************************************************************************)
\* the fields of a sprite a pointer-move may write in each mode
OwnFields ==
    IF mode = "Dragging" THEN {"x", "y"}
    ELSE IF mode = "Rotating" THEN {"rotation"}
    ELSE IF mode \in ScalingModes THEN {"scaleX", "scaleY"}
    ELSE {}
SpriteFields == {"id", "emoji", "x", "y", "rotation", "scaleX", "scaleY", "zIndex"}

\* C34: a pointer-move changes, of the whole collection, only the fields of
\* the selected sprite that belong to the mode: x and y when dragging,
\* rotation when rotating, scaleX and scaleY when scaling, nothing in Idle;
\* the other fields of that sprite, the other sprites, the selection, the
\* number of sprites and nextId are as before.
C34_MoveWritesOwnFields ==
    [][last'.op = "pointerMove" =>
        /\ Len(state'.sprites) = Len(state.sprites)
        /\ state'.selectedId = state.selectedId
        /\ state'.nextId = state.nextId
        /\ \A i \in 1..Len(state.sprites) :
                IF i = SelectedIndex(state)
                THEN \A f \in SpriteFields \ OwnFields :
                        state'.sprites[i][f] = state.sprites[i][f]
                ELSE state'.sprites[i] = state.sprites[i]]_vars

\* a drag has moved the selected one of two sprites away from where the
\* pointer-down found it
C34_Witness ==
    /\ last.op = "pointerMove"
    /\ mode = "Dragging"
    /\ Len(state.sprites) = 2
    /\ SelectedIndex(state) # 0
    /\ Selected(state).id = dragStartSpriteState.id
    /\ Selected(state).x # dragStartSpriteState.x
    /\ Selected(state).zIndex = dragStartSpriteState.zIndex

(***************************************************************************)
(* Session data: properties                                                *)
(***************************************************************************)
\* C35 as stated: in Idle mode the drag-start position, the drag-start
\* sprite snapshot and the local pivot are absent; in an active mode the
\* position and the snapshot are present; the local pivot is present
\* exactly in the four corner scaling modes.
C35_AsStated ==
    /\ mode = "None" =>
            /\ dragStartPos = Null
            /\ dragStartSpriteState = Null
            /\ dragStartLocalPos = Null
    /\ mode # "None" =>
            /\ dragStartPos # Null
            /\ dragStartSpriteState # Null
    /\ (dragStartLocalPos # Null) <=> (mode \in ScalingModes)

(***************************************************************************)
(* History and the store: properties                                       *)
(***************************************************************************)
\* C36: a handler that pushed leaves in the store the entry on top of the
\* undo stack; a handler that pushed nothing (undo, redo, a pointer-move, a
\* commit of an unchanged state, the load) leaves the store as it was; so
\* after the undo of a commit the store holds the entry that was undone,
\* not the entry the state was restored from.
C36_OnlyPushesPersist ==
    [][/\ last'.pushes > 0 => storage' = <<"doc", Top(undoStack')>>
       /\ last'.pushes = 0 => storage' = storage
       /\ (last.pushes > 0 /\ last'.op = "undo" /\ Len(undoStack) > 1) =>
            /\ storage' = <<"doc", Top(redoStack')>>
            /\ storage' # <<"doc", Top(undoStack')>>]_vars

\* a commit has been undone: the store holds the undone entry, now on the
\* redo stack, and the state is the one of the entry below it
C36_Witness ==
    /\ last.op = "undo"
    /\ Len(redoStack) > 0
    /\ storage = <<"doc", Top(redoStack)>>
    /\ storage # <<"doc", Top(undoStack)>>
    /\ Serialize(state) = Top(undoStack)

\* C37: with no session active and the history initialized, the top of the
\* undo stack is the serialization of the live editor state, whatever
\* commits, undos, redos and evictions came before.
C37_TopIsLiveState ==
    (mode = "None" /\ initialized) => Top(undoStack) = Serialize(state)

\* an undo after the oldest entry was evicted: the state is the one of the
\* entry now on top, which is not the entry that was undone
C37_Witness ==
    /\ Evicted
    /\ mode = "None"
    /\ last.op = "undo" /\ last.result
    /\ Len(redoStack) > 0
    /\ Top(undoStack) # Top(redoStack)
    /\ Top(undoStack) = Serialize(state)

(***************************************************************************)
(* Identity of sprites: properties                                         *)
(***************************************************************************)
\* the ids of the sprites of the collection
LiveIds(st) == {st.sprites[i].id : i \in 1..Len(st.sprites)}

\* C38: in every state the handlers of the editor reach (add, delete,
\* clear, pointer-down, import, undo, redo among them) the selected id is
\* none or the id of a sprite of the collection.
C38_SelectionIsLive ==
    state.selectedId = NullId \/ state.selectedId \in LiveIds(state)

\* the selected sprite has been deleted and another one remains: nothing
\* is selected
C38_Witness ==
    /\ last.op = "delete"
    /\ last.pushes = 1
    /\ Len(state.sprites) >= 1
    /\ state.selectedId = NullId

\* C39 as stated: in every state the ids of the sprites of the collection
\* differ from one another and each is below nextId.
C39_AsStated ==
    /\ \A i \in 1..Len(state.sprites) :
            state.sprites[i] # Null => state.sprites[i].id < state.nextId
    /\ \A i, j \in 1..Len(state.sprites) :
            (i # j /\ state.sprites[i] # Null /\ state.sprites[j] # Null) =>
                state.sprites[i].id # state.sprites[j].id

(***************************************************************************)
(* Gestures and the history: properties                                    *)
(***************************************************************************)
\* C40: a pointer-down pushes one undo entry when it changes the selection
\* and none when it does not; a pointer-move pushes none and the release
\* at most one, so that a gesture from pointer-down to release pushes at
\* most two entries, and at most one when its pointer-down left the
\* selection as it was.
C40_DownPushesOnSelectionChange ==
    [][/\ last'.op = "pointerDown" =>
            last'.pushes = IF state'.selectedId # state.selectedId THEN 1 ELSE 0
       /\ last'.op = "pointerMove" => last'.pushes = 0
       /\ last'.op \in {"pointerUp", "pointerCancel"} => last'.pushes <= 1
       /\ (last'.op \in {"pointerDown", "pointerMove", "pointerUp", "pointerCancel"}) =>
            Len(undoStack') <= Len(undoStack) + last'.pushes]_vars

\* the release of a drag has pushed the moved sprite on top of the entry a
\* selecting pointer-down pushed: the two entries differ in the position of
\* the selected sprite and agree on the selection, which the entry below
\* them does not have
C40_Witness ==
    /\ last.op = "pointerUp"
    /\ last.pushes = 1
    /\ Len(undoStack) >= 3
    /\ Deserialize(undoStack[Len(undoStack) - 1]).selectedId = state.selectedId
    /\ Deserialize(undoStack[Len(undoStack) - 2]).selectedId # state.selectedId
    /\ Deserialize(undoStack[Len(undoStack) - 1]).sprites # state.sprites

====
